---- MODULE Spec2Model ----
(***************************************************************************)
(* Verification model of kusanaginokajiki (passive ICS/SCADA discovery).   *)
(*                                                                         *)
(* Three sub-systems are modelled over one set of variables:               *)
(*   - the per-IP aggregator (PacketProcessor + TopologyBuilder),          *)
(*   - the command surface state (in-memory view + SQLite session store),  *)
(*   - the live capture handle (reader thread, flags, channel, ring).      *)
(* Each has its own next-state relation and specification; the variables   *)
(* of the other sub-systems are left unchanged by it.                      *)
(***************************************************************************)
EXTENDS Integers, Sequences, FiniteSets, TLC

\* ------------------------------------------------------------------------
\* Bounds of the model
\* ------------------------------------------------------------------------
MaxFrames == 3
MaxSnapshots == 2

IPs == {"10.0.0.1", "10.0.0.2"}
Ports == {502, 40000}
OriginFiles == {"a.pcap", "b.pcap"}
FrameLens == {64}
Timestamps == {1, 2}

\* A ParsedPacket (IP frame) as far as the aggregator reads it.  The frames
\* of the model are client/server exchanges between two distinct hosts: one
\* side uses the service port, the other the ephemeral port.
Frames ==
    { f \in [src_ip : IPs, dst_ip : IPs, src_port : Ports, dst_port : Ports,
             ts : Timestamps, length : FrameLens, origin_file : OriginFiles] :
        f.src_ip # f.dst_ip /\ f.src_port # f.dst_port }

\* ------------------------------------------------------------------------
\* Generic helpers
\* ------------------------------------------------------------------------
Upd(f, k, v) == [x \in (DOMAIN f) \cup {k} |-> IF x = k THEN v ELSE f[x]]

Get(f, k, d) == IF k \in DOMAIN f THEN f[k] ELSE d

EmptyMap == [x \in {} |-> 0]

Range(s) == { s[i] : i \in DOMAIN s }

RECURSIVE SumOver(_, _)
SumOver(f, S) ==
    IF S = {} THEN 0
    ELSE LET k == CHOOSE x \in S : TRUE
         IN f[k] + SumOver(f, S \ {k})

\* All orderings of a finite set as sequences without repetition.
RECURSIVE Orderings(_)
Orderings(S) ==
    IF S = {} THEN { <<>> }
    ELSE UNION { { <<x>> \o s : s \in Orderings(S \ {x}) } : x \in S }

\* ------------------------------------------------------------------------
\* gm-parsers: protocol identification
\* ------------------------------------------------------------------------
\* One port looked up in the well-known port table; "" stands for `continue`.
PortProtocol(port) ==
    CASE port = 502 -> "Modbus"
      [] port = 20000 -> "Dnp3"
      [] port \in {44818, 2222} -> "EthernetIp"
      [] port = 47808 -> "Bacnet"
      [] port = 102 -> "S7comm"
      [] port = 4840 -> "OpcUa"
      [] port \in 34962..34964 -> "Profinet"
      [] port = 2404 -> "Iec104"
      [] port \in {1883, 8883} -> "Mqtt"
      [] port = 5094 -> "HartIp"
      [] port \in 1089..1091 -> "FoundationFieldbus"
      [] port \in {18245, 18246} -> "GeSrtp"
      [] port = 5007 -> "WonderwareSuitelink"
      [] port \in {80, 8080, 8443} -> "Http"
      [] port = 443 -> "Https"
      [] port = 53 -> "Dns"
      [] port = 22 -> "Ssh"
      [] port = 3389 -> "Rdp"
      [] port \in {161, 162} -> "Snmp"
      [] OTHER -> ""

\* Destination port first, then source port.  Protocols are named by their
\* Debug rendering ("Modbus", "EthernetIp", ...), which is what the
\* aggregator stores in ConnectionInfo.protocol and in edge keys.
identify_by_port(src_port, dst_port) ==
    IF PortProtocol(dst_port) # "" THEN PortProtocol(dst_port)
    ELSE IF PortProtocol(src_port) # "" THEN PortProtocol(src_port)
    ELSE "Unknown"

identify_protocol(packet) == identify_by_port(packet.src_port, packet.dst_port)

\* IcsProtocol::from_name: only the snake_case serde names are recognised.
from_name(name) ==
    CASE name = "modbus" -> "Modbus"
      [] name = "dnp3" -> "Dnp3"
      [] name = "ethernet_ip" -> "EthernetIp"
      [] name = "bacnet" -> "Bacnet"
      [] name = "s7comm" -> "S7comm"
      [] name = "opc_ua" -> "OpcUa"
      [] name = "profinet" -> "Profinet"
      [] name = "iec104" -> "Iec104"
      [] name = "mqtt" -> "Mqtt"
      [] name = "hart_ip" -> "HartIp"
      [] name = "foundation_fieldbus" -> "FoundationFieldbus"
      [] name = "ge_srtp" -> "GeSrtp"
      [] name = "wonderware_suitelink" -> "WonderwareSuitelink"
      [] name = "http" -> "Http"
      [] name = "https" -> "Https"
      [] name = "dns" -> "Dns"
      [] name = "ssh" -> "Ssh"
      [] name = "rdp" -> "Rdp"
      [] name = "snmp" -> "Snmp"
      [] OTHER -> "Unknown"

is_ot(protocol) ==
    protocol \in {"Modbus", "Dnp3", "EthernetIp", "Bacnet", "S7comm", "OpcUa",
                  "Profinet", "Iec104", "Mqtt", "HartIp", "FoundationFieldbus",
                  "GeSrtp", "WonderwareSuitelink"}

\* format!("{:?}", p).to_lowercase(): the Debug name in lower case.
debug_lowercase(protocol) ==
    CASE protocol = "Modbus" -> "modbus"
      [] protocol = "Dnp3" -> "dnp3"
      [] protocol = "EthernetIp" -> "ethernetip"
      [] protocol = "Bacnet" -> "bacnet"
      [] protocol = "S7comm" -> "s7comm"
      [] protocol = "OpcUa" -> "opcua"
      [] protocol = "Profinet" -> "profinet"
      [] protocol = "Iec104" -> "iec104"
      [] protocol = "Mqtt" -> "mqtt"
      [] protocol = "HartIp" -> "hartip"
      [] protocol = "FoundationFieldbus" -> "foundationfieldbus"
      [] protocol = "GeSrtp" -> "gesrtp"
      [] protocol = "WonderwareSuitelink" -> "wonderwaresuitelink"
      [] protocol = "Http" -> "http"
      [] protocol = "Https" -> "https"
      [] protocol = "Dns" -> "dns"
      [] protocol = "Ssh" -> "ssh"
      [] protocol = "Rdp" -> "rdp"
      [] protocol = "Snmp" -> "snmp"
      [] OTHER -> "unknown"

is_server_port(port) ==
    port \in {102, 502, 1089, 1090, 1091, 1883, 2222, 2404, 4840, 5007, 5094,
              8883, 18245, 18246, 20000, 34962, 34963, 34964, 44818, 47808}

\* commands::infer_device_type
infer_device_type(protocols, is_server) ==
    LET ot_protocol_count == Cardinality({ p \in protocols : is_ot(p) })
    IN IF is_server /\ ot_protocol_count >= 1
       THEN IF protocols \cap {"EthernetIp", "S7comm", "GeSrtp", "Bacnet"} # {}
            THEN "plc"
            ELSE IF protocols \cap {"Modbus", "Dnp3"} # {}
            THEN "rtu"
            ELSE "unknown"
       ELSE IF "WonderwareSuitelink" \in protocols /\ is_server THEN "scada_server"
       ELSE IF ot_protocol_count >= 2 THEN "hmi"
       ELSE IF "OpcUa" \in protocols /\ ot_protocol_count = 1 THEN "historian"
       ELSE IF ot_protocol_count = 0 THEN "it_device"
       ELSE "unknown"

\* ------------------------------------------------------------------------
\* gm-topology: TopologyBuilder
\* ------------------------------------------------------------------------
NewTopologyBuilder == [nodes |-> EmptyMap, edges |-> EmptyMap, edge_counter |-> 0]

ensure_node(nodes, ip, protocol) ==
    LET node == Get(nodes, ip,
                    [id |-> ip, ip_address |-> ip, device_type |-> "unknown",
                     vendor |-> "", protocols |-> <<>>, packet_count |-> 0])
    IN Upd(nodes, ip,
           [node EXCEPT !.packet_count = @ + 1,
                        !.protocols = IF protocol \in Range(@) THEN @
                                      ELSE Append(@, protocol)])

\* Variant of add_connection that creates or updates the node of the source
\* only, never the node of the destination.
add_connection_SourceNodeOnly(tb, src_ip, dst_ip, protocol, bytes) ==
    LET nodes1 == ensure_node(tb.nodes, src_ip, protocol)
        key == <<src_ip, dst_ip, protocol>>
        reverse_key == <<dst_ip, src_ip, protocol>>
        has_reverse == reverse_key \in DOMAIN tb.edges
        is_new == key \notin DOMAIN tb.edges
        counter == IF is_new THEN tb.edge_counter + 1 ELSE tb.edge_counter
        edge == IF is_new
                THEN [id |-> counter, source |-> src_ip, target |-> dst_ip,
                      protocol |-> protocol, packet_count |-> 0,
                      byte_count |-> 0, bidirectional |-> FALSE]
                ELSE tb.edges[key]
    IN [nodes |-> nodes1,
        edges |-> Upd(tb.edges, key,
                      [edge EXCEPT !.packet_count = @ + 1,
                                   !.byte_count = @ + bytes,
                                   !.bidirectional = IF has_reverse THEN TRUE ELSE @]),
        edge_counter |-> counter]

add_connection(tb, src_ip, dst_ip, protocol, bytes) ==
    LET nodes1 == ensure_node(tb.nodes, src_ip, protocol)
        nodes2 == ensure_node(nodes1, dst_ip, protocol)
        key == <<src_ip, dst_ip, protocol>>
        reverse_key == <<dst_ip, src_ip, protocol>>
        has_reverse == reverse_key \in DOMAIN tb.edges
        is_new == key \notin DOMAIN tb.edges
        counter == IF is_new THEN tb.edge_counter + 1 ELSE tb.edge_counter
        edge == IF is_new
                THEN [id |-> counter, source |-> src_ip, target |-> dst_ip,
                      protocol |-> protocol, packet_count |-> 0,
                      byte_count |-> 0, bidirectional |-> FALSE]
                ELSE tb.edges[key]
    IN [nodes |-> nodes2,
        edges |-> Upd(tb.edges, key,
                      [edge EXCEPT !.packet_count = @ + 1,
                                   !.byte_count = @ + bytes,
                                   !.bidirectional = IF has_reverse THEN TRUE ELSE @]),
        edge_counter |-> counter]

\* TopologyBuilder::snapshot / build: the values of both maps, as a graph.
\* The Vec order is the HashMap's iteration order, so a graph is modelled
\* by the sets of its nodes and edges.
snapshot(tb) ==
    [nodes |-> { tb.nodes[k] : k \in DOMAIN tb.nodes },
     edges |-> { tb.edges[k] : k \in DOMAIN tb.edges }]

EmptyGraph == [nodes |-> {}, edges |-> {}]

\* ------------------------------------------------------------------------
\* commands::processor: PacketProcessor (the per-IP aggregator)
\* ------------------------------------------------------------------------
NewProcessor ==
    [topo_builder |-> NewTopologyBuilder,
     connections |-> EmptyMap,
     asset_protocols |-> EmptyMap,
     asset_packet_counts |-> EmptyMap,
     asset_first_seen |-> EmptyMap,
     asset_last_seen |-> EmptyMap,
     server_ips |-> {},
     all_protocols |-> {},
     conn_origin_files |-> EmptyMap,
     total_packets |-> 0]

\* Variant of NewConnectionInfo that counts the opening frame already at
\* insertion (packet_count starts at 1 and is then incremented as well).
NewConnectionInfo_CountsOpeningFrame(id, packet, proto_str) ==
    [id |-> id, src_ip |-> packet.src_ip, src_port |-> packet.src_port,
     dst_ip |-> packet.dst_ip, dst_port |-> packet.dst_port,
     protocol |-> proto_str, transport |-> "tcp",
     packet_count |-> 1, byte_count |-> 0,
     first_seen |-> packet.ts, last_seen |-> packet.ts,
     origin_files |-> {}]

\* The entry inserted by or_insert_with when the 5-tuple is new.
NewConnectionInfo(id, packet, proto_str) ==
    [id |-> id, src_ip |-> packet.src_ip, src_port |-> packet.src_port,
     dst_ip |-> packet.dst_ip, dst_port |-> packet.dst_port,
     protocol |-> proto_str, transport |-> "tcp",
     packet_count |-> 0, byte_count |-> 0,
     first_seen |-> packet.ts, last_seen |-> packet.ts,
     origin_files |-> {}]

\* The three assignments that follow the entry lookup.
UpdateConnection(conn, packet) ==
    [conn EXCEPT !.packet_count = @ + 1,
                 !.byte_count = @ + packet.length,
                 !.last_seen = packet.ts]

ConnKey(packet, proto_str) ==
    <<packet.src_ip, packet.src_port, packet.dst_ip, packet.dst_port, proto_str>>

\* process_packet; `uuid` is the fresh value Uuid::new_v4() would return
\* should the frame open a new connection.
process_packet(p, packet, uuid) ==
    LET protocol == identify_protocol(packet)
        ap1 == Upd(p.asset_protocols, packet.src_ip,
                   Get(p.asset_protocols, packet.src_ip, {}) \cup {protocol})
        ap2 == Upd(ap1, packet.dst_ip, Get(ap1, packet.dst_ip, {}) \cup {protocol})
        pc1 == Upd(p.asset_packet_counts, packet.src_ip,
                   Get(p.asset_packet_counts, packet.src_ip, 0) + 1)
        pc2 == Upd(pc1, packet.dst_ip, Get(pc1, packet.dst_ip, 0) + 1)
        fs1 == Upd(p.asset_first_seen, packet.src_ip,
                   Get(p.asset_first_seen, packet.src_ip, packet.ts))
        fs2 == Upd(fs1, packet.dst_ip, Get(fs1, packet.dst_ip, packet.ts))
        ls1 == Upd(p.asset_last_seen, packet.src_ip, packet.ts)
        ls2 == Upd(ls1, packet.dst_ip, packet.ts)
        srv == p.server_ips
                 \cup (IF is_server_port(packet.dst_port) THEN {packet.dst_ip} ELSE {})
                 \cup (IF is_server_port(packet.src_port) THEN {packet.src_ip} ELSE {})
        conn_key == ConnKey(packet, protocol)
        entry == Get(p.connections, conn_key, NewConnectionInfo(uuid, packet, protocol))
    IN [topo_builder |-> add_connection(p.topo_builder, packet.src_ip, packet.dst_ip,
                                        protocol, packet.length),
        connections |-> Upd(p.connections, conn_key, UpdateConnection(entry, packet)),
        asset_protocols |-> ap2,
        asset_packet_counts |-> pc2,
        asset_first_seen |-> fs2,
        asset_last_seen |-> ls2,
        server_ips |-> srv,
        all_protocols |-> p.all_protocols \cup {protocol},
        conn_origin_files |-> Upd(p.conn_origin_files, conn_key,
                                  Get(p.conn_origin_files, conn_key, {})
                                      \cup {packet.origin_file}),
        total_packets |-> p.total_packets + 1]

\* Variant of finalize_origin_files that moves the per-connection file sets
\* out of conn_origin_files (drains the accumulator) instead of copying them.
finalize_origin_files_Drains(p) ==
    [p EXCEPT !.connections =
        [k \in DOMAIN p.connections |->
            IF k \in DOMAIN p.conn_origin_files
            THEN [p.connections[k] EXCEPT !.origin_files = p.conn_origin_files[k]]
            ELSE p.connections[k]],
              !.conn_origin_files = EmptyMap]

\* get_connections(&mut self), first half: origin_files of every connection
\* is rewritten from conn_origin_files (a sorted, duplicate-free Vec, i.e.
\* the set itself).  This is the processor after the call.
finalize_origin_files(p) ==
    [p EXCEPT !.connections =
        [k \in DOMAIN p.connections |->
            IF k \in DOMAIN p.conn_origin_files
            THEN [p.connections[k] EXCEPT !.origin_files = p.conn_origin_files[k]]
            ELSE p.connections[k]]]

\* get_connections, second half: the values of the connection map.
get_connections(p) ==
    LET q == finalize_origin_files(p)
    IN { q.connections[k] : k \in DOMAIN q.connections }

\* Variant of asset_confidence in which an OUI vendor sets the confidence
\* to 3 whatever it was.
asset_confidence_OuiAssigns(best_match, protocols, oui_vendor, device_id) ==
    LET base == IF best_match # {}
                THEN (CHOOSE m \in best_match : TRUE).confidence
                ELSE IF \E x \in protocols : x # "Unknown" THEN 1 ELSE 0
        vendor == IF best_match # {}
                  THEN (CHOOSE m \in best_match : TRUE).vendor
                  ELSE {}
        after_oui == IF vendor = {} /\ oui_vendor # {} THEN 3 ELSE base
    IN IF device_id # {} THEN 5 ELSE after_oui

\* The confidence build_assets gives an asset.  `best_match` is
\* sig_matches.first(), the highest-confidence signature match, `oui_vendor`
\* the vendor the OUI table has for the MAC and `device_id` the Modbus
\* device identification in the deep-parse info; each is an Option ({} is
\* None).
asset_confidence(best_match, protocols, oui_vendor, device_id) ==
    LET base == IF best_match # {}
                THEN (CHOOSE m \in best_match : TRUE).confidence
                ELSE IF \E x \in protocols : x # "Unknown" THEN 1 ELSE 0
        vendor == IF best_match # {}
                  THEN (CHOOSE m \in best_match : TRUE).vendor
                  ELSE {}
        after_oui == IF vendor = {} /\ oui_vendor # {}
                     THEN (IF base < 3 THEN 3 ELSE base)
                     ELSE base
    IN IF device_id # {} THEN 5 ELSE after_oui

\* build_assets with an empty signature engine and empty OUI / GeoIP tables:
\* one asset per IP with activity, before sorting.  An Option field is the
\* set of its values: {} is None, {x} is Some(x); an Option<String> that
\* is only ever compared to None is "" when None.
build_assets(p) ==
    { [id |-> ip, ip_address |-> ip, hostname |-> "",
       device_type |-> infer_device_type(p.asset_protocols[ip], ip \in p.server_ips),
       vendor |-> "",
       protocols |-> { debug_lowercase(x) : x \in p.asset_protocols[ip] },
       first_seen |-> Get(p.asset_first_seen, ip, 0),
       last_seen |-> Get(p.asset_last_seen, ip, 0),
       notes |-> "", purdue_level |-> {}, tags |-> {},
       packet_count |-> Get(p.asset_packet_counts, ip, 0),
       confidence |-> asset_confidence({}, p.asset_protocols[ip], {}, {})]
      : ip \in DOMAIN p.asset_protocols }

\* Everything a snapshot reads out of the processor.
View(p) ==
    [topology |-> snapshot(p.topo_builder),
     connections |-> get_connections(p),
     assets |-> build_assets(p),
     total_packets |-> p.total_packets]

\* ------------------------------------------------------------------------
\* gm-db: the SQLite session store, and the row conversions of
\* commands::session
\* ------------------------------------------------------------------------
\* `x as i64` of a u64 and `x as u64` of an i64: the two's complement
\* reinterpretation of a word, modelled on 30-bit words (the model checker's
\* integers have 32 bits).
u64_as_i64(x) == IF x >= 2^29 THEN x - 2^30 ELSE x

i64_as_u64(x) == x % 2^30

\* `x as u16` and `x as u8` of an i64.
i64_as_u16(x) == x % 2^16

i64_as_u8(x) == x % 2^8

\* serde_json::to_string of a Vec<String> and serde_json::from_str with
\* unwrap_or_default: text that is not a JSON array reads as the empty Vec.
to_json(v) == <<"json", v>>

from_json(s) == IF Len(s) = 2 /\ s[1] = "json" THEN s[2] ELSE {}

asset_info_to_row(asset, session_id) ==
    [id |-> asset.id, session_id |-> session_id,
     ip_address |-> asset.ip_address, hostname |-> asset.hostname,
     device_type |-> asset.device_type, vendor |-> asset.vendor,
     protocols |-> to_json(asset.protocols),
     confidence |-> asset.confidence,
     purdue_level |-> asset.purdue_level,
     tags |-> to_json(asset.tags), notes |-> asset.notes,
     packet_count |-> u64_as_i64(asset.packet_count),
     first_seen |-> asset.first_seen, last_seen |-> asset.last_seen]

row_to_asset_info(row) ==
    [id |-> row.id, ip_address |-> row.ip_address, hostname |-> row.hostname,
     device_type |-> row.device_type, vendor |-> row.vendor,
     protocols |-> from_json(row.protocols),
     first_seen |-> row.first_seen, last_seen |-> row.last_seen,
     notes |-> row.notes,
     purdue_level |-> { i64_as_u8(l) : l \in row.purdue_level },
     tags |-> from_json(row.tags),
     packet_count |-> i64_as_u64(row.packet_count),
     confidence |-> i64_as_u8(row.confidence)]

connection_info_to_row(conn, session_id) ==
    [id |-> conn.id, session_id |-> session_id,
     src_ip |-> conn.src_ip, src_port |-> conn.src_port,
     dst_ip |-> conn.dst_ip, dst_port |-> conn.dst_port,
     protocol |-> conn.protocol, transport |-> conn.transport,
     packet_count |-> u64_as_i64(conn.packet_count),
     byte_count |-> u64_as_i64(conn.byte_count),
     first_seen |-> conn.first_seen, last_seen |-> conn.last_seen,
     origin_files |-> to_json(conn.origin_files)]

row_to_connection_info(row) ==
    [id |-> row.id, src_ip |-> row.src_ip,
     src_port |-> i64_as_u16(row.src_port),
     dst_ip |-> row.dst_ip, dst_port |-> i64_as_u16(row.dst_port),
     protocol |-> row.protocol, transport |-> row.transport,
     packet_count |-> i64_as_u64(row.packet_count),
     byte_count |-> i64_as_u64(row.byte_count),
     first_seen |-> row.first_seen, last_seen |-> row.last_seen,
     origin_files |-> from_json(row.origin_files)]

\* The database: the sessions table (id -> metadata), and the assets and
\* connections tables, each keyed by its PRIMARY KEY column `id` alone.
NewDb == [sessions |-> EmptyMap, assets |-> EmptyMap, connections |-> EmptyMap]

create_session(db, session_id, metadata) ==
    [db EXCEPT !.sessions = Upd(@, session_id, metadata)]

\* INSERT OR REPLACE INTO assets: a row with the same id, of whatever
\* session, is replaced.
insert_asset(db, row) == [db EXCEPT !.assets = Upd(@, row.id, row)]

insert_connection(db, row) == [db EXCEPT !.connections = Upd(@, row.id, row)]

\* SELECT ... FROM assets WHERE session_id = ?1
list_assets(db, session_id) ==
    { db.assets[k] : k \in { x \in DOMAIN db.assets :
                               db.assets[x].session_id = session_id } }

list_connections(db, session_id) ==
    { db.connections[k] : k \in { x \in DOMAIN db.connections :
                                    db.connections[x].session_id = session_id } }

RECURSIVE insert_assets(_, _, _)
insert_assets(db, assets, session_id) ==
    IF assets = {} THEN db
    ELSE LET a == CHOOSE x \in assets : TRUE
         IN insert_assets(insert_asset(db, asset_info_to_row(a, session_id)),
                          assets \ {a}, session_id)

RECURSIVE insert_connections(_, _, _)
insert_connections(db, conns, session_id) ==
    IF conns = {} THEN db
    ELSE LET c == CHOOSE x \in conns : TRUE
         IN insert_connections(insert_connection(db, connection_info_to_row(c, session_id)),
                               conns \ {c}, session_id)

\* ------------------------------------------------------------------------
\* commands: the state behind the command surface (AppStateInner) and the
\* handlers that replace or merge it
\* ------------------------------------------------------------------------
\* `assets` is the content of the asset Vec and `asset_order` the ids of
\* its elements in Vec order.
NewAppState ==
    [topology |-> EmptyGraph, assets |-> {}, asset_order |-> <<>>,
     connections |-> {}, imported_files |-> {}, current_session_id |-> {},
     purdue_assignments |-> <<>>]

\* get_assets: the asset Vec as it is.
get_assets(app) ==
    [i \in DOMAIN app.asset_order |->
        CHOOSE a \in app.assets : a.id = app.asset_order[i]]

\* The ids of a sequence of assets or asset rows.
Ids(s) == [i \in DOMAIN s |-> s[i].id]

is_ot_device(a) == a.device_type \notin {"it_device", "unknown"}

\* Variant of asset_before for a comparator on the packet count alone.
asset_before_PacketCountOnly(a, b) ==
    a.packet_count > b.packet_count

\* The comparator of the asset sort says Less for (a, b):
\* b_ot.cmp(&a_ot).then(b.packet_count.cmp(&a.packet_count))
asset_before(a, b) ==
    \/ is_ot_device(a) /\ ~is_ot_device(b)
    \/ is_ot_device(a) = is_ot_device(b) /\ a.packet_count > b.packet_count

\* Vec::sort_by, a stable sort: each element goes behind everything that
\* does not compare greater than it.
RECURSIVE insert_sorted(_, _)
insert_sorted(sorted, a) ==
    IF sorted = <<>> THEN <<a>>
    ELSE IF asset_before(a, Head(sorted)) THEN <<a>> \o sorted
    ELSE <<Head(sorted)>> \o insert_sorted(Tail(sorted), a)

RECURSIVE sort_assets(_)
sort_assets(s) ==
    IF s = <<>> THEN <<>>
    ELSE insert_sorted(sort_assets(SubSeq(s, 1, Len(s) - 1)), s[Len(s)])

\* The pipeline of import_pcap over the frames of the files, in file order;
\* `uuid_base` is the number of UUIDs drawn before the call.
RECURSIVE process_all(_, _, _)
process_all(p, packets, uuid_base) ==
    IF packets = <<>> THEN p
    ELSE process_all(
             process_packet(p, Head(packets),
                            uuid_base + Cardinality(DOMAIN p.connections) + 1),
             Tail(packets), uuid_base)

\* import_pcap: the result of the pipeline replaces topology, assets and
\* connections; the file names are added to imported_files; the loaded
\* session id is left as it is.  `hash_order` is the order in which the
\* per-IP hash map yielded the assets, which are then sorted.
import_pcap(app, packets, uuid_base, hash_order) ==
    LET p == process_all(NewProcessor, packets, uuid_base)
    IN [app EXCEPT !.topology = snapshot(p.topo_builder),
                   !.assets = build_assets(p),
                   !.asset_order = Ids(sort_assets(hash_order)),
                   !.connections = get_connections(p),
                   !.imported_files = @ \cup { packets[i].origin_file :
                                                 i \in DOMAIN packets }]

\* The topology rebuilt from a connection list: one add_connection per
\* connection, the protocol parsed back from its stored name.
RECURSIVE rebuild_topology(_, _)
rebuild_topology(tb, conns) ==
    IF conns = <<>> THEN tb
    ELSE LET conn == Head(conns)
         IN rebuild_topology(
                add_connection(tb, conn.src_ip, conn.dst_ip,
                               from_name(conn.protocol), conn.byte_count),
                Tail(conns))

\* ingest: enrich_asset (passive source, no OS information).
enrich_asset(existing, ingested) ==
    [existing EXCEPT
        !.protocols = @ \cup ingested.protocols,
        !.hostname = IF @ = "" THEN ingested.hostname ELSE @,
        !.vendor = IF @ = "" THEN ingested.vendor ELSE @,
        !.tags = @ \cup {ingested.source}]

\* ingest: create_asset_from_ingested (passive source, no open ports).
create_asset_from_ingested(ingested) ==
    [id |-> ingested.ip_address, ip_address |-> ingested.ip_address,
     hostname |-> ingested.hostname,
     device_type |-> infer_device_type({ from_name(x) : x \in ingested.protocols },
                                       FALSE),
     vendor |-> ingested.vendor, protocols |-> ingested.protocols,
     first_seen |-> 0, last_seen |-> 0, notes |-> "", purdue_level |-> {},
     tags |-> {ingested.source}, packet_count |-> 0,
     confidence |-> IF ingested.vendor # "" THEN 2 ELSE 1]

\* The asset loop of merge_ingest_result.
RECURSIVE merge_assets(_, _)
merge_assets(assets, ingested) ==
    IF ingested = {} THEN assets
    ELSE LET ia == CHOOSE x \in ingested : TRUE
             found == { a \in assets : a.ip_address = ia.ip_address }
             merged == IF found # {}
                       THEN LET existing == CHOOSE a \in found : TRUE
                            IN (assets \ {existing}) \cup {enrich_asset(existing, ia)}
                       ELSE assets \cup {create_asset_from_ingested(ia)}
         IN merge_assets(merged, ingested \ {ia})

SameEndpoints(c, ic) ==
    /\ c.src_ip = ic.src_ip /\ c.dst_ip = ic.dst_ip
    /\ c.src_port = ic.src_port /\ c.dst_port = ic.dst_port

\* The connection loop of merge_ingest_result; `uuid_base` is the number of
\* UUIDs drawn so far.  The result is the connection list and that number.
RECURSIVE merge_connections(_, _, _)
merge_connections(conns, ingested, uuid_base) ==
    IF ingested = {} THEN [connections |-> conns, uuid |-> uuid_base]
    ELSE LET ic == CHOOSE x \in ingested : TRUE
             found == { c \in conns : SameEndpoints(c, ic) }
         IN IF found # {}
            THEN LET existing == CHOOSE c \in found : TRUE
                     updated == [existing EXCEPT
                                    !.packet_count = @ + ic.packet_count,
                                    !.byte_count = @ + ic.byte_count,
                                    !.origin_files = @ \cup {ic.source}]
                 IN merge_connections((conns \ {existing}) \cup {updated},
                                      ingested \ {ic}, uuid_base)
            ELSE LET conn == [id |-> uuid_base + 1,
                              src_ip |-> ic.src_ip, src_port |-> ic.src_port,
                              dst_ip |-> ic.dst_ip, dst_port |-> ic.dst_port,
                              protocol |-> ic.protocol, transport |-> ic.transport,
                              packet_count |-> ic.packet_count,
                              byte_count |-> ic.byte_count,
                              first_seen |-> ic.first_seen,
                              last_seen |-> ic.last_seen,
                              origin_files |-> {ic.source}]
                 IN merge_connections(conns \cup {conn}, ingested \ {ic},
                                      uuid_base + 1)

\* The node loop at the end of merge_ingest_result.
enrich_nodes(graph, assets) ==
    LET enrich(node) ==
            LET found == { a \in assets : a.ip_address = node.ip_address }
            IN IF found = {} THEN node
               ELSE LET a == CHOOSE x \in found : TRUE
                    IN [node EXCEPT
                           !.vendor = IF a.vendor # "" THEN a.vendor ELSE @,
                           !.device_type = IF a.confidence >= 3
                                           THEN a.device_type ELSE @]
    IN [graph EXCEPT !.nodes = { enrich(n) : n \in @ }]

\* The asset Vec after the asset loop: enriched assets stay where they
\* are, new ones are pushed at the end in the order of the ingest result.
merged_asset_order(asset_order, ingest_order) ==
    asset_order \o
        SelectSeq([i \in DOMAIN ingest_order |-> ingest_order[i].ip_address],
                  LAMBDA ip : ip \notin Range(asset_order))

\* merge_ingest_result; `order` is the order of the merged connection Vec
\* and `ingest_order` the ingested assets in the order of the result.
merge_ingest_result(app, assets, conns, order, source, ingest_order) ==
    [app EXCEPT
        !.assets = assets,
        !.asset_order = merged_asset_order(@, ingest_order),
        !.connections = conns,
        !.imported_files = @ \cup {source},
        !.topology = enrich_nodes(snapshot(rebuild_topology(NewTopologyBuilder, order)),
                                  assets)]

\* save_session: a session row under a fresh id, then one INSERT OR REPLACE
\* per asset and per connection in memory.
save_session(app, db, session_id) ==
    insert_connections(
        insert_assets(create_session(db, session_id,
                                     [imported_files |-> app.imported_files]),
                      app.assets, session_id),
        app.connections, session_id)

\* load_session of a session that exists; `order` is the order in which
\* list_connections returned the rows and `asset_rows` the rows of
\* list_assets in the order it returned them.
load_session(app, db, session_id, order, asset_rows) ==
    [app EXCEPT
        !.topology = snapshot(rebuild_topology(NewTopologyBuilder, order)),
        !.assets = { row_to_asset_info(r) : r \in list_assets(db, session_id) },
        !.asset_order = Ids(asset_rows),
        !.connections = Range(order),
        !.imported_files = db.sessions[session_id].imported_files,
        !.current_session_id = {session_id}]

\* What can go wrong in a load_session call: nothing, no database handle, or
\* a failing query in get_session, list_assets or list_connections.
LoadFaults == {"none", "db_unavailable", "get_session", "list_assets",
               "list_connections"}

\* Variant of load_session_outcome for a handler that installs the session
\* id and the assets as soon as they are read, before the connections are.
load_session_outcome_ReplacesEarly(app, db, session_id, order, asset_rows, fault) ==
    IF fault = "db_unavailable"
    THEN [ok |-> FALSE, app |-> app]
    ELSE IF fault = "get_session" \/ session_id \notin DOMAIN db.sessions
    THEN [ok |-> FALSE, app |-> app]
    ELSE IF fault = "list_assets"
    THEN [ok |-> FALSE, app |-> app]
    ELSE IF fault = "list_connections"
    THEN [ok |-> FALSE,
          app |-> [app EXCEPT
                     !.assets = { row_to_asset_info(r) :
                                    r \in list_assets(db, session_id) },
                     !.current_session_id = {session_id}]]
    ELSE [ok |-> TRUE,
          app |-> load_session(app, db, session_id, order, asset_rows)]

\* The whole load_session handler: each `?` returns the error before any
\* field of the state is assigned; get_session answers NotFound for an id
\* that has no row.
load_session_outcome(app, db, session_id, order, asset_rows, fault) ==
    IF fault = "db_unavailable"
    THEN [ok |-> FALSE, app |-> app]
    ELSE IF fault = "get_session" \/ session_id \notin DOMAIN db.sessions
    THEN [ok |-> FALSE, app |-> app]
    ELSE IF fault = "list_assets"
    THEN [ok |-> FALSE, app |-> app]
    ELSE IF fault = "list_connections"
    THEN [ok |-> FALSE, app |-> app]
    ELSE [ok |-> TRUE,
          app |-> load_session(app, db, session_id, order, asset_rows)]

\* The IPs of a graph's nodes and the (source, target, protocol) keys of its
\* edges.
NodeIPs(graph) == { n.ip_address : n \in graph.nodes }

EdgeKeys(graph) == { <<e.source, e.target, e.protocol>> : e \in graph.edges }

\* gm-db update_field for one asset row.  The old value is read as a string
\* first: an id without a row is an error, and so is a stored integer, which
\* only purdue_level can hold.  The new value is bound as text; the INTEGER
\* column purdue_level stores the number it spells.
update_field(db, asset_id, field_name, new_value) ==
    IF asset_id \notin DOMAIN db.assets THEN [ok |-> FALSE, db |-> db]
    ELSE IF field_name = "purdue_level"
    THEN IF db.assets[asset_id].purdue_level # {}
         THEN [ok |-> FALSE, db |-> db]
         ELSE [ok |-> TRUE,
               db |-> [db EXCEPT !.assets[asset_id].purdue_level = {new_value}]]
    ELSE IF field_name = "device_type"
    THEN [ok |-> TRUE, db |-> [db EXCEPT !.assets[asset_id].device_type = new_value]]
    ELSE IF field_name = "hostname"
    THEN [ok |-> TRUE, db |-> [db EXCEPT !.assets[asset_id].hostname = new_value]]
    ELSE IF field_name = "notes"
    THEN [ok |-> TRUE, db |-> [db EXCEPT !.assets[asset_id].notes = new_value]]
    ELSE IF field_name = "tags"
    THEN [ok |-> TRUE, db |-> [db EXCEPT !.assets[asset_id].tags = new_value]]
    ELSE [ok |-> FALSE, db |-> db]

\* Database::update_asset_field as its callers use it: the result dropped.
update_asset_field(db, asset_id, field, value) ==
    update_field(db, asset_id, field, value).db

\* gm-db bulk_update_field: the ids in order, stopping at the first error.
RECURSIVE bulk_update_field(_, _, _, _)
bulk_update_field(db, asset_ids, field_name, new_value) ==
    IF asset_ids = <<>> THEN db
    ELSE LET r == update_field(db, Head(asset_ids), field_name, new_value)
         IN IF r.ok
            THEN bulk_update_field(r.db, Tail(asset_ids), field_name, new_value)
            ELSE db

\* The in-memory part of update_asset and bulk_update_assets for one asset.
\* Each field of `updates` is an Option ({} is None).
apply_updates(asset, updates) ==
    LET a1 == IF updates.device_type = {} THEN asset
              ELSE [asset EXCEPT !.device_type = CHOOSE x \in updates.device_type : TRUE]
        a2 == IF updates.hostname = {} THEN a1
              ELSE [a1 EXCEPT !.hostname = CHOOSE x \in updates.hostname : TRUE]
        a3 == IF updates.notes = {} THEN a2
              ELSE [a2 EXCEPT !.notes = CHOOSE x \in updates.notes : TRUE]
        a4 == IF updates.purdue_level = {} THEN a3
              ELSE LET level == CHOOSE x \in updates.purdue_level : TRUE
                   IN [a3 EXCEPT !.purdue_level = IF level > 5 THEN {} ELSE {level}]
    IN IF updates.tags = {} THEN a4
       ELSE [a4 EXCEPT !.tags = CHOOSE x \in updates.tags : TRUE]

\* The persisting part of update_asset: one update per field that is given,
\* the level written as requested.
persist_updates(db, asset_id, updates) ==
    LET d1 == IF updates.device_type = {} THEN db
              ELSE update_asset_field(db, asset_id, "device_type",
                                      CHOOSE x \in updates.device_type : TRUE)
        d2 == IF updates.hostname = {} THEN d1
              ELSE update_asset_field(d1, asset_id, "hostname",
                                      CHOOSE x \in updates.hostname : TRUE)
        d3 == IF updates.notes = {} THEN d2
              ELSE update_asset_field(d2, asset_id, "notes",
                                      CHOOSE x \in updates.notes : TRUE)
        d4 == IF updates.purdue_level = {} THEN d3
              ELSE update_asset_field(d3, asset_id, "purdue_level",
                                      CHOOSE x \in updates.purdue_level : TRUE)
    IN IF updates.tags = {} THEN d4
       ELSE update_asset_field(d4, asset_id, "tags",
                               to_json(CHOOSE x \in updates.tags : TRUE))

\* update_asset: Err and nothing changed when no asset has the id;
\* otherwise the asset is edited in memory and, if a session is loaded, the
\* given fields are written to its row.
update_asset(app, db, asset_id, updates) ==
    IF \A a \in app.assets : a.id # asset_id
    THEN [app |-> app, db |-> db]
    ELSE [app |-> [app EXCEPT !.assets =
                      { IF a.id = asset_id THEN apply_updates(a, updates) ELSE a
                          : a \in @ }],
          db |-> IF app.current_session_id # {}
                 THEN persist_updates(db, asset_id, updates)
                 ELSE db]

\* bulk_update_assets: every asset whose id is listed is edited in memory;
\* only device_type and notes are written to the rows.
bulk_update_assets(app, db, asset_ids, updates) ==
    [app |-> [app EXCEPT !.assets =
                 { IF a.id \in Range(asset_ids) THEN apply_updates(a, updates) ELSE a
                     : a \in @ }],
     db |-> IF app.current_session_id = {} THEN db
            ELSE LET d1 == IF updates.device_type = {} THEN db
                           ELSE bulk_update_field(
                                    db, asset_ids, "device_type",
                                    CHOOSE x \in updates.device_type : TRUE)
                 IN IF updates.notes = {} THEN d1
                    ELSE bulk_update_field(
                             d1, asset_ids, "notes",
                             CHOOSE x \in updates.notes : TRUE)]

\* gm-analysis purdue: the protocol names that count as OT there, and the
\* server ports of level-1 devices.
is_ot_protocol_name(name) ==
    name \in {"modbus", "dnp3", "ethernet_ip", "bacnet", "s7comm", "opc_ua",
              "profinet", "iec104", "mqtt", "hart_ip", "foundation_fieldbus",
              "ge_srtp", "wonderware_suitelink"}

L1_SERVER_PORTS == {502, 44818, 2222, 102, 20000, 2404, 34962, 34963, 34964}

\* assign_level without deep-parse data.
assign_level(asset, conns) ==
    LET dt == asset.device_type
        serves_ot == \E c \in conns :
                        c.dst_ip = asset.ip_address /\ c.dst_port \in L1_SERVER_PORTS
        ot_protocols == { x \in asset.protocols : is_ot_protocol_name(x) }
        ot_target_count == Cardinality({ c \in conns :
                                           /\ c.src_ip = asset.ip_address
                                           /\ c.dst_port \in L1_SERVER_PORTS })
    IN IF dt \in {"plc", "rtu"} THEN 1
       ELSE IF dt \in {"hmi", "engineering_workstation"} THEN 2
       ELSE IF dt \in {"historian", "scada_server"} THEN 3
       ELSE IF serves_ot THEN 1
       ELSE IF "opc_ua" \in ot_protocols \/ ot_target_count >= 10 THEN 3
       ELSE IF Cardinality(ot_protocols) >= 2 \/ ot_target_count >= 2 THEN 2
       ELSE IF ot_protocols # {} THEN 2
       ELSE 4

\* build_analysis_input: the assets in Vec order and the connections (no
\* deep-parse data is held in this model).
build_analysis_input(app) ==
    [assets |-> get_assets(app), connections |-> app.connections]

\* One entry of auto_assign_purdue_levels; the reason text is left out.
auto_assignment_ReassignsSetLevels(asset, input) ==
    [ip_address |-> asset.ip_address,
     level |-> assign_level(asset, input.connections),
     method |-> "Auto"]

auto_assignment(asset, input) ==
    IF asset.purdue_level # {}
    THEN [ip_address |-> asset.ip_address,
          level |-> CHOOSE l \in asset.purdue_level : TRUE,
          method |-> "Manual"]
    ELSE [ip_address |-> asset.ip_address,
          level |-> assign_level(asset, input.connections),
          method |-> "Auto"]

\* auto_assign_purdue_levels: one assignment per asset, in asset order.
auto_assign_purdue_levels(input) ==
    [i \in DOMAIN input.assets |-> auto_assignment(input.assets[i], input)]

\* The order of the severities (the derive on Severity).
severity_rank(s) ==
    IF s = "Critical" THEN 4
    ELSE IF s = "High" THEN 3
    ELSE IF s = "Medium" THEN 2
    ELSE IF s = "Low" THEN 1
    ELSE 0

\* The address -> level map collected from the assignments: a later
\* assignment for an address replaces an earlier one.
level_map(assignments) ==
    [ip \in { assignments[i].ip_address : i \in DOMAIN assignments } |->
        LET hits == { i \in DOMAIN assignments : assignments[i].ip_address = ip }
        IN assignments[CHOOSE i \in hits : \A j \in hits : j <= i].level]

\* The findings detect_purdue_violations pushes for one connection; title
\* and description are left out, the evidence is the values it formats.
connection_violations(conn, levels) ==
    IF conn.src_ip \notin DOMAIN levels \/ conn.dst_ip \notin DOMAIN levels
    THEN <<>>
    ELSE LET src_level == levels[conn.src_ip]
             dst_level == levels[conn.dst_ip]
             finding(severity) ==
                 [finding_type |-> "PurdueViolation", severity |-> severity,
                  affected_assets |-> <<conn.src_ip, conn.dst_ip>>,
                  evidence |-> <<conn.src_ip, src_level, conn.dst_ip, dst_level,
                                 conn.dst_port, conn.packet_count>>,
                  technique_id |-> {"T0886"}]
             is_violation == \/ (src_level <= 1 /\ dst_level >= 4)
                             \/ (src_level >= 4 /\ dst_level <= 1)
             is_l2_l4_violation == \/ (src_level = 2 /\ dst_level >= 4)
                                   \/ (src_level >= 4 /\ dst_level = 2)
         IN (IF is_violation THEN << finding("Medium") >> ELSE <<>>)
            \o (IF is_l2_l4_violation THEN << finding("Low") >> ELSE <<>>)

RECURSIVE all_violations(_, _)
all_violations(connections, levels) ==
    IF connections = <<>> THEN <<>>
    ELSE connection_violations(Head(connections), levels)
         \o all_violations(Tail(connections), levels)

\* One turn of the deduplication loop; d holds `deduped` and `seen`.
dedup_step_ForwardKeyOnly(d, finding) ==
    IF Len(finding.affected_assets) >= 2
    THEN LET key == <<finding.affected_assets[1], finding.affected_assets[2]>>
         IN IF key \in DOMAIN d.seen
            THEN LET idx == d.seen[key]
                 IN IF severity_rank(finding.severity)
                         > severity_rank(d.deduped[idx].severity)
                    THEN [d EXCEPT !.deduped[idx] = finding]
                    ELSE d
            ELSE [deduped |-> Append(d.deduped, finding),
                  seen |-> Upd(d.seen, key, Len(d.deduped) + 1)]
    ELSE [d EXCEPT !.deduped = Append(@, finding)]

dedup_step(d, finding) ==
    IF Len(finding.affected_assets) >= 2
    THEN LET key == <<finding.affected_assets[1], finding.affected_assets[2]>>
             rev_key == <<key[2], key[1]>>
         IN IF key \in DOMAIN d.seen \/ rev_key \in DOMAIN d.seen
            THEN LET idx == IF key \in DOMAIN d.seen THEN d.seen[key]
                            ELSE d.seen[rev_key]
                 IN IF severity_rank(finding.severity)
                         > severity_rank(d.deduped[idx].severity)
                    THEN [d EXCEPT !.deduped[idx] = finding]
                    ELSE d
            ELSE [deduped |-> Append(d.deduped, finding),
                  seen |-> Upd(d.seen, key, Len(d.deduped) + 1)]
    ELSE [d EXCEPT !.deduped = Append(@, finding)]

RECURSIVE dedup(_, _)
dedup(d, findings) ==
    IF findings = <<>> THEN d.deduped
    ELSE dedup(dedup_step(d, Head(findings)), Tail(findings))

\* detect_purdue_violations; input.connections is the connection Vec.
detect_purdue_violations(input, assignments) ==
    dedup([deduped |-> <<>>, seen |-> EmptyMap],
          all_violations(input.connections, level_map(assignments)))

\* gm-analysis attack: the ports that count as OT server ports there.
OT_SERVER_PORTS ==
    {102, 502, 1089, 1090, 1091, 2222, 2404, 4840, 5007, 5094, 18245, 18246,
     20000, 34962, 34963, 34964, 44818, 47808}

\* The scanner_targets map of detect_t0846_remote_discovery: for every
\* source that is no known OT device and whose first asset record (if any)
\* is typed it_device or unknown, the destinations it reaches on an OT
\* server port.
scanner_targets(input) ==
    LET ot_device_ips ==
            { input.assets[i].ip_address : i \in
                { j \in DOMAIN input.assets :
                    input.assets[j].device_type \in
                      {"plc", "rtu", "hmi", "historian",
                       "engineering_workstation", "scada_server"} } }
        src_type(ip) ==
            LET hits == { i \in DOMAIN input.assets :
                            input.assets[i].ip_address = ip }
            IN IF hits = {} THEN "unknown"
               ELSE input.assets[CHOOSE i \in hits : \A j \in hits : i <= j].device_type
        counted == { i \in DOMAIN input.connections :
                       /\ input.connections[i].dst_port \in OT_SERVER_PORTS
                       /\ input.connections[i].src_ip \notin ot_device_ips
                       /\ src_type(input.connections[i].src_ip)
                              \in {"it_device", "unknown"} }
    IN [ip \in { input.connections[i].src_ip : i \in counted } |->
          { input.connections[i].dst_ip : i \in
              { j \in counted : input.connections[j].src_ip = ip } }]

\* The finding pushed for one scanner; `targets` is its target set in the
\* order the set is iterated in.
t0846_finding(scanner_ip, targets) ==
    [finding_type |-> "AttackTechnique", severity |-> "High",
     affected_assets |-> <<scanner_ip>> \o targets,
     evidence |-> <<scanner_ip, Len(targets), targets>>,
     technique_id |-> {"T0846"}]

\* detect_t0846_remote_discovery: the results it can return.  The map and
\* its sets are hash tables, iterated in an order that is not fixed.
detect_t0846_remote_discovery(input) ==
    LET st == scanner_targets(input)
        flagged == { ip \in DOMAIN st : Cardinality(st[ip]) >= 3 }
        iterations ==
            { pick \in [flagged -> UNION { Orderings(st[ip]) : ip \in flagged }] :
                \A ip \in flagged : pick[ip] \in Orderings(st[ip]) }
    IN UNION { { [i \in DOMAIN order |-> t0846_finding(order[i], pick[order[i]])]
                   : pick \in iterations }
               : order \in Orderings(flagged) }

\* run_full_analysis as far as the Purdue pass goes.
run_full_analysis(input) ==
    [purdue_assignments |-> auto_assign_purdue_levels(input)]

\* The loop of run_analysis over the assignments: the first asset of the
\* Vec with the assignment's address gets its level if it has none.
RECURSIVE apply_assignments(_, _, _)
apply_assignments(assets, asset_order, assignments) ==
    IF assignments = <<>> THEN assets
    ELSE LET assignment == Head(assignments)
             hits == { i \in DOMAIN asset_order :
                         \E a \in assets : /\ a.id = asset_order[i]
                                           /\ a.ip_address = assignment.ip_address }
             next ==
                 IF hits = {} THEN assets
                 ELSE LET first == CHOOSE i \in hits : \A j \in hits : i <= j
                      IN { IF a.id = asset_order[first] /\ a.purdue_level = {}
                           THEN [a EXCEPT !.purdue_level = {assignment.level}]
                           ELSE a
                             : a \in assets }
         IN apply_assignments(next, asset_order, Tail(assignments))

\* run_analysis: the result is stored, and the assets without a level get
\* the level assigned to them.
run_analysis(app) ==
    LET result == run_full_analysis(build_analysis_input(app))
    IN [app EXCEPT
          !.purdue_assignments = result.purdue_assignments,
          !.assets = apply_assignments(@, app.asset_order,
                                       result.purdue_assignments)]

\* ORDER BY packet_count DESC
ByPacketCountDesc(s) ==
    \A i, j \in DOMAIN s : i < j => s[i].packet_count >= s[j].packet_count

\* ------------------------------------------------------------------------
\* State
\* ------------------------------------------------------------------------
\* ------------------------------------------------------------------------
\* gm-signatures: SignatureEngine
\* ------------------------------------------------------------------------
\* A fingerprint file is [ext, readable, parses, name, confidence, filters];
\* `parses` is whether serde_yaml reads a Signature out of it.  A filter is
\* [field, value, pattern] with Options as sets; a pattern is a plain hex
\* string, a sequence of hex digits.
NewSignatureEngine ==
    [signatures |-> <<>>, compiled_patterns |-> EmptyMap, signature_dir |-> {}]

\* parse_hex_pattern on a plain hex string.
parse_hex_pattern(pattern) ==
    IF Len(pattern) % 2 # 0 THEN [kind |-> "ParseError", bytes |-> <<>>]
    ELSE IF Len(pattern) = 0 THEN [kind |-> "ParseError", bytes |-> <<>>]
    ELSE [kind |-> "Ok",
          bytes |-> [i \in 1..(Len(pattern) \div 2) |->
                        16 * pattern[2 * i - 1] + pattern[2 * i]]]

\* yaml_value_to_u16: a number in range, or nothing.
yaml_value_to_u16(val) ==
    IF val \in 0..65535 THEN {val} ELSE {}

\* compile_filters: the compiled filters, or the first error.
RECURSIVE compile_filters(_)
compile_filters(filters) ==
    IF filters = <<>> THEN [kind |-> "Ok", compiled |-> <<>>]
    ELSE LET filter == Head(filters)
             here ==
                 IF filter.field \in {"tcp.dst_port", "tcp.src_port", "udp.dst_port",
                                      "udp.src_port", "dst_port", "src_port"}
                 THEN IF filter.value = {} THEN [kind |-> "Ok", compiled |-> <<>>]
                      ELSE LET port == yaml_value_to_u16(CHOOSE v \in filter.value : TRUE)
                           IN IF port = {}
                              THEN [kind |-> "ValidationError", compiled |-> <<>>]
                              ELSE [kind |-> "Ok",
                                    compiled |-> << [filter |-> "Port",
                                                     field |-> filter.field,
                                                     port |-> CHOOSE x \in port : TRUE] >>]
                 ELSE IF filter.field = "protocol"
                 THEN IF filter.value = {} THEN [kind |-> "Ok", compiled |-> <<>>]
                      ELSE [kind |-> "Ok",
                            compiled |-> << [filter |-> "Protocol",
                                             proto |-> CHOOSE v \in filter.value : TRUE] >>]
                 ELSE IF filter.pattern = {} THEN [kind |-> "Ok", compiled |-> <<>>]
                 ELSE LET parsed == parse_hex_pattern(CHOOSE x \in filter.pattern : TRUE)
                      IN IF parsed.kind # "Ok"
                         THEN [kind |-> parsed.kind, compiled |-> <<>>]
                         ELSE [kind |-> "Ok",
                               compiled |-> << [filter |-> "PayloadBytes",
                                                bytes |-> parsed.bytes] >>]
             rest == compile_filters(Tail(filters))
         IN IF here.kind # "Ok" THEN here
            ELSE IF rest.kind # "Ok" THEN rest
            ELSE [kind |-> "Ok", compiled |-> here.compiled \o rest.compiled]

\* load_yaml: the error kind or "Ok", and the engine afterwards.
load_yaml_RegistersBeforeValidating(eng, yaml) ==
    IF ~yaml.parses THEN [kind |-> "ParseError", engine |-> eng]
    ELSE LET idx == Len(eng.signatures)
             c == compile_filters(yaml.filters)
             sig == [name |-> yaml.name, confidence |-> yaml.confidence,
                     filters |-> yaml.filters]
             pushed == [eng EXCEPT !.signatures = Append(@, sig)]
         IN IF yaml.confidence < 1 \/ yaml.confidence > 5
            THEN [kind |-> "ValidationError", engine |-> pushed]
            ELSE IF c.kind # "Ok" THEN [kind |-> c.kind, engine |-> pushed]
            ELSE [kind |-> "Ok",
                  engine |-> [pushed EXCEPT
                                !.compiled_patterns = Upd(@, idx, c.compiled)]]

load_yaml(eng, yaml) ==
    IF ~yaml.parses THEN [kind |-> "ParseError", engine |-> eng]
    ELSE IF yaml.confidence < 1 \/ yaml.confidence > 5
    THEN [kind |-> "ValidationError", engine |-> eng]
    ELSE LET idx == Len(eng.signatures)
             c == compile_filters(yaml.filters)
         IN IF c.kind # "Ok" THEN [kind |-> c.kind, engine |-> eng]
            ELSE [kind |-> "Ok",
                  engine |-> [eng EXCEPT
                                !.compiled_patterns = Upd(@, idx, c.compiled),
                                !.signatures =
                                    Append(@, [name |-> yaml.name,
                                               confidence |-> yaml.confidence,
                                               filters |-> yaml.filters])]]

\* load_file
load_file(eng, file) ==
    IF ~file.readable THEN [kind |-> "IoError", engine |-> eng]
    ELSE load_yaml(eng, file)

\* The loop of load_directory over the entries of an existing directory.
RECURSIVE load_entries_AbortsOnInvalid(_, _, _)
load_entries_AbortsOnInvalid(eng, entries, count) ==
    IF entries = <<>> THEN [kind |-> "Ok", count |-> count, engine |-> eng]
    ELSE LET file == Head(entries)
         IN IF file.ext \in {"yaml", "yml"}
            THEN LET r == load_file(eng, file)
                 IN IF r.kind = "Ok"
                    THEN load_entries_AbortsOnInvalid(r.engine, Tail(entries), count + 1)
                    ELSE [kind |-> "Ok", count |-> count, engine |-> r.engine]
            ELSE load_entries_AbortsOnInvalid(eng, Tail(entries), count)

RECURSIVE load_entries(_, _, _)
load_entries(eng, entries, count) ==
    IF entries = <<>> THEN [kind |-> "Ok", count |-> count, engine |-> eng]
    ELSE LET file == Head(entries)
         IN IF file.ext \in {"yaml", "yml"}
            THEN LET r == load_file(eng, file)
                 IN IF r.kind = "Ok"
                    THEN load_entries(r.engine, Tail(entries), count + 1)
                    ELSE load_entries(r.engine, Tail(entries), count)
            ELSE load_entries(eng, Tail(entries), count)

\* load_directory of an existing, readable directory with this listing.
load_directory_AbortsOnInvalid(eng, dir, listing) ==
    load_entries_AbortsOnInvalid([eng EXCEPT !.signature_dir = {dir}], listing, 0)

load_directory(eng, dir, listing) ==
    load_entries([eng EXCEPT !.signature_dir = {dir}], listing, 0)

\* reload
reload_KeepsLoaded(eng, listing) ==
    IF eng.signature_dir = {}
    THEN [kind |-> "IoError", count |-> 0, engine |-> eng]
    ELSE load_directory(eng, CHOOSE d \in eng.signature_dir : TRUE, listing)

reload(eng, listing) ==
    IF eng.signature_dir = {}
    THEN [kind |-> "IoError", count |-> 0, engine |-> eng]
    ELSE load_directory([eng EXCEPT !.signatures = <<>>,
                                    !.compiled_patterns = EmptyMap],
                        CHOOSE d \in eng.signature_dir : TRUE, listing)

\* payload_contains
payload_contains(haystack, needle) ==
    IF Len(needle) = 0 \/ Len(needle) > Len(haystack) THEN Len(needle) = 0
    ELSE \E i \in 1..(Len(haystack) - Len(needle) + 1) :
            SubSeq(haystack, i, i + Len(needle) - 1) = needle

\* filter_matches
filter_matches(filter, packet) ==
    IF filter.filter = "Port"
    THEN IF filter.field \in {"tcp.dst_port", "dst_port"}
         THEN packet.transport = "tcp" /\ packet.dst_port = filter.port
         ELSE IF filter.field \in {"tcp.src_port", "src_port"}
         THEN packet.transport = "tcp" /\ packet.src_port = filter.port
         ELSE IF filter.field = "udp.dst_port"
         THEN packet.transport = "udp" /\ packet.dst_port = filter.port
         ELSE IF filter.field = "udp.src_port"
         THEN packet.transport = "udp" /\ packet.src_port = filter.port
         ELSE FALSE
    ELSE IF filter.filter = "Protocol" THEN packet.protocol = filter.proto
    ELSE IF packet.payload = <<>> THEN FALSE
    ELSE payload_contains(packet.payload, filter.bytes)

all_filters_match(filters, packet) ==
    \A i \in DOMAIN filters : filter_matches(filters[i], packet)

\* sort_by confidence descending, a stable sort.
RECURSIVE sort_matches(_)
sort_matches(matches) ==
    IF matches = <<>> THEN <<>>
    ELSE LET top == CHOOSE i \in DOMAIN matches :
                       /\ \A j \in DOMAIN matches :
                              matches[j].confidence <= matches[i].confidence
                       /\ \A j \in DOMAIN matches :
                              matches[j].confidence = matches[i].confidence => i <= j
         IN << matches[top] >>
            \o sort_matches(SubSeq(matches, 1, top - 1)
                             \o SubSeq(matches, top + 1, Len(matches)))

\* match_packet: the signatures whose compiled filters all match, highest
\* confidence first.
match_packet(eng, packet) ==
    LET hit(idx) == /\ (idx - 1) \in DOMAIN eng.compiled_patterns
                    /\ all_filters_match(eng.compiled_patterns[idx - 1], packet)
        idxs == SelectSeq([i \in DOMAIN eng.signatures |-> i], hit)
    IN sort_matches([k \in DOMAIN idxs |->
                        [signature_name |-> eng.signatures[idxs[k]].name,
                         confidence |-> eng.signatures[idxs[k]].confidence]])

VARIABLES
    proc,        \* the PacketProcessor fed by the pipeline
    shadow,      \* a second PacketProcessor fed the same frames, never read out
    last_snap,   \* the most recent snapshot taken from proc
    snap_count,  \* number of snapshots taken so far
    app,         \* AppStateInner: topology, assets, connections, session id
    db,          \* the SQLite session store
    uuids,       \* number of UUIDs drawn so far by the command surface
    saved,       \* history: session id -> the working view it was saved from
    last_cmd,    \* history: the command that completed last
    cmd_count,   \* history: number of imports and ingests so far
    stop_flag,          \* LiveCaptureHandle.stop_flag
    pause_flag,         \* LiveCaptureHandle.pause_flag
    reader_pc,          \* where the reader thread is in its loop
    reader_result,      \* "running", or the thread's result "ok" / "err"
    packets_captured,   \* LiveCaptureHandle.packets_captured
    bytes_captured,     \* LiveCaptureHandle.bytes_captured
    raw_packets,        \* the ring buffer of raw frames
    chan,               \* frames sent on the channel and not yet received
    rx_open,            \* the Receiver has not been dropped
    received,           \* history: frames the consumer has received, in order
    stop_pc,            \* where the caller of stop() is
    captured_in_pause,  \* history: frames captured since the pause flag was set
    ring_buffer_size,   \* LiveCaptureConfig.ring_buffer_size of the running capture
    stop_result,        \* what stop() returned: "none" until it has, then "ok" / "err"
    pcap_file,          \* the file save_to_pcap wrote, and the reader's state then
    at_error,           \* history: what had been accumulated when the read failed
    infer_case,         \* the last call of infer_device_type: arguments and result
    conf_case,          \* the last asset scored by build_assets: evidence and confidence
    viol_case,  \* the last call of detect_purdue_violations: arguments and result
    scan_case, \* the last call of detect_t0846_remote_discovery: arguments and result
    engine,  \* AppStateInner.signature_engine
    sig_listing,  \* the signature directory as read_dir lists it; not yet fixed while sig_dir_set is FALSE
    sig_dir_set,  \* the signature directory and its listing are fixed
    sig_log,  \* history: the last engine call, its result, and the engine after the first load
    sig_ops  \* history: number of engine calls after the first load

aggVars == <<proc, shadow, last_snap, snap_count>>

appVars == <<app, db, uuids, saved, last_cmd, cmd_count>>

liveVars == <<stop_flag, pause_flag, reader_pc, reader_result,
              packets_captured, bytes_captured, raw_packets, chan, rx_open,
              received, stop_pc, captured_in_pause, ring_buffer_size,
              stop_result, pcap_file, at_error>>

classVars == <<infer_case, conf_case>>

sigVars == <<engine, sig_listing, sig_dir_set, sig_log, sig_ops>>

analysisVars == <<viol_case, scan_case>>

vars == <<proc, shadow, last_snap, snap_count,
          app, db, uuids, saved, last_cmd, cmd_count,
          stop_flag, pause_flag, reader_pc, reader_result,
          packets_captured, bytes_captured, raw_packets, chan, rx_open,
          received, stop_pc, captured_in_pause, ring_buffer_size,
          stop_result, pcap_file, at_error, infer_case, conf_case,
          viol_case, scan_case,
          engine, sig_listing, sig_dir_set, sig_log, sig_ops>>

NoSnapshot ==
    [topology |-> EmptyGraph, connections |-> {}, assets |-> {}, total_packets |-> 0]

InitAgg ==
    /\ proc = NewProcessor
    /\ shadow = NewProcessor
    /\ last_snap = NoSnapshot
    /\ snap_count = 0

InitApp ==
    /\ app = NewAppState
    /\ db = NewDb
    /\ uuids = 0
    /\ saved = EmptyMap
    /\ last_cmd = [op |-> "none", session |-> 0]
    /\ cmd_count = 0

InitLive ==
    /\ stop_flag = FALSE
    /\ pause_flag = FALSE
    /\ reader_pc = "idle"
    /\ reader_result = "running"
    /\ packets_captured = 0
    /\ bytes_captured = 0
    /\ raw_packets = <<>>
    /\ chan = <<>>
    /\ rx_open = TRUE
    /\ received = <<>>
    /\ stop_pc = "idle"
    /\ captured_in_pause = 0
    /\ ring_buffer_size = 0
    /\ stop_result = "none"
    /\ pcap_file = [written |-> FALSE, frames |-> <<>>, reader |-> "running"]
    /\ at_error = [ring |-> <<>>, packets |-> 0, bytes |-> 0,
                   received |-> <<>>, queued |-> <<>>]

InitClass ==
    /\ infer_case = [called |-> FALSE, protocols |-> {}, is_server |-> FALSE,
                     device_type |-> ""]
    /\ conf_case = [called |-> FALSE, best_match |-> {}, protocols |-> {},
                    oui_vendor |-> {}, device_id |-> {}, confidence |-> 0]

InitAnalysis ==
    /\ viol_case = [called |-> FALSE, assignments |-> <<>>, connections |-> <<>>,
                    findings |-> <<>>]
    /\ scan_case = [called |-> FALSE, assets |-> <<>>, connections |-> <<>>,
                    findings |-> <<>>]

InitSignatures ==
    /\ engine = NewSignatureEngine
    /\ sig_listing = <<>>
    /\ sig_dir_set = FALSE
    /\ sig_log = [op |-> "none", kind |-> "Ok", count |-> 0, yaml |-> {},
                  before |-> NewSignatureEngine,
                  first |-> NewSignatureEngine, first_count |-> 0]
    /\ sig_ops = 0

Init ==
    InitAgg /\ InitApp /\ InitLive /\ InitClass /\ InitAnalysis /\ InitSignatures


\* ------------------------------------------------------------------------
\* Aggregator actions
\* ------------------------------------------------------------------------
\* One frame goes through process_packet.  The connection id is a fresh
\* UUID; the number of connections opened so far names it.
ProcessFrame ==
    /\ proc.total_packets < MaxFrames
    /\ \E packet \in Frames :
        LET uuid == Cardinality(DOMAIN proc.connections) + 1
        IN /\ proc' = process_packet(proc, packet, uuid)
           /\ shadow' = process_packet(shadow, packet, uuid)
    /\ UNCHANGED <<last_snap, snap_count>>
    /\ UNCHANGED <<appVars, liveVars, classVars, analysisVars, sigVars>>

\* A snapshot is read out of the processor: topology snapshot, connection
\* list (which rewrites origin_files in place), asset list.
TakeSnapshot ==
    /\ snap_count < MaxSnapshots
    /\ last_snap' = View(proc)
    /\ proc' = finalize_origin_files(proc)
    /\ snap_count' = snap_count + 1
    /\ UNCHANGED shadow
    /\ UNCHANGED <<appVars, liveVars, classVars, analysisVars, sigVars>>

NextAgg == ProcessFrame \/ TakeSnapshot

SpecAgg == Init /\ [][NextAgg]_vars

\* ------------------------------------------------------------------------
\* Command surface actions
\* ------------------------------------------------------------------------
ImportLengths == {1, 2}
MaxCommands == 2
MaxSessions == 2

\* The frames of one capture file: requests to and replies from the Modbus
\* server 10.0.0.2.
ImportFrames ==
    { f \in Frames :
        /\ f.ts = 1 /\ f.origin_file = "a.pcap"
        /\ (f.dst_ip = "10.0.0.2" <=> f.dst_port = 502) }

\* Assets and flows reported by a Zeek log: one host the captures know, one
\* they do not, a client of two OT protocols; one flow the captures know,
\* one from the new host.
IngestedAssets ==
    { [ip_address |-> "10.0.0.2", hostname |-> "plc-2", vendor |-> "Siemens",
       protocols |-> {"modbus"}, source |-> "[Zeek]"],
      [ip_address |-> "10.0.0.3", hostname |-> "", vendor |-> "",
       protocols |-> {"modbus", "dnp3"}, source |-> "[Zeek]"] }

IngestedConnections ==
    { [src_ip |-> "10.0.0.1", src_port |-> 40000,
       dst_ip |-> "10.0.0.2", dst_port |-> 502,
       protocol |-> "modbus", transport |-> "tcp",
       packet_count |-> 1, byte_count |-> 64,
       first_seen |-> 1, last_seen |-> 1, source |-> "[Zeek]"],
      [src_ip |-> "10.0.0.3", src_port |-> 40000,
       dst_ip |-> "10.0.0.2", dst_port |-> 502,
       protocol |-> "modbus", transport |-> "tcp",
       packet_count |-> 1, byte_count |-> 64,
       first_seen |-> 1, last_seen |-> 1, source |-> "[Zeek]"] }

\* The parsed logs: hosts with the flows they take part in, or hosts alone.
IngestResults ==
    { [assets |-> { a \in IngestedAssets : a.ip_address \in ips },
       connections |-> { c \in IngestedConnections : c.src_ip \in ips }]
        : ips \in {{"10.0.0.1", "10.0.0.2"}, {"10.0.0.3"}} }
    \cup { [assets |-> IngestedAssets, connections |-> {}] }

\* import_pcap of one capture file.
ImportPcap ==
    /\ cmd_count < MaxCommands
    /\ \E n \in ImportLengths :
        \E packets \in [1..n -> ImportFrames] :
            /\ \E hash_order \in Orderings(build_assets(
                                     process_all(NewProcessor, packets, uuids))) :
                   app' = import_pcap(app, packets, uuids, hash_order)
            /\ uuids' = uuids + Cardinality(get_connections(
                                    process_all(NewProcessor, packets, uuids)))
    /\ last_cmd' = [op |-> "import", session |-> 0]
    /\ cmd_count' = cmd_count + 1
    /\ UNCHANGED <<db, saved>>
    /\ UNCHANGED <<aggVars, liveVars, classVars, analysisVars, sigVars>>

\* import_zeek_logs and the like: merge_ingest_result of a parsed log.
MergeIngest ==
    /\ cmd_count < MaxCommands
    /\ \E ingest \in IngestResults :
        /\ LET assets == merge_assets(app.assets, ingest.assets)
               m == merge_connections(app.connections, ingest.connections, uuids)
           IN /\ \E order \in Orderings(m.connections),
                       ingest_order \in Orderings(ingest.assets) :
                    app' = merge_ingest_result(app, assets, m.connections,
                                               order, "[Zeek]", ingest_order)
              /\ uuids' = m.uuid
    /\ last_cmd' = [op |-> "ingest", session |-> 0]
    /\ cmd_count' = cmd_count + 1
    /\ UNCHANGED <<db, saved>>
    /\ UNCHANGED <<aggVars, liveVars, classVars, analysisVars, sigVars>>

\* save_session: the state in memory is written under a fresh session id.
SaveSession ==
    /\ Cardinality(DOMAIN db.sessions) < MaxSessions
    /\ LET session_id == uuids + 1
       IN /\ db' = save_session(app, db, session_id)
          /\ uuids' = session_id
          /\ saved' = Upd(saved, session_id,
                          [assets |-> app.assets, connections |-> app.connections,
                           nodes |-> NodeIPs(app.topology),
                           edges |-> EdgeKeys(app.topology),
                           imported_files |-> app.imported_files])
          /\ last_cmd' = [op |-> "save", session |-> session_id]
    /\ UNCHANGED <<app, cmd_count>>
    /\ UNCHANGED <<aggVars, liveVars, classVars, analysisVars, sigVars>>

\* load_session of a stored session when nothing fails on the way.
LoadSession ==
    /\ \E session_id \in DOMAIN db.sessions :
        LET conns == { row_to_connection_info(r) :
                         r \in list_connections(db, session_id) }
        IN /\ \E order \in { o \in Orderings(conns) : ByPacketCountDesc(o) },
                   asset_rows \in { o \in Orderings(list_assets(db, session_id)) :
                                      ByPacketCountDesc(o) } :
                 app' = load_session_outcome(app, db, session_id, order,
                                             asset_rows, "none").app
           /\ last_cmd' = [op |-> "load", session |-> session_id]
    /\ UNCHANGED <<db, uuids, saved, cmd_count>>
    /\ UNCHANGED <<aggVars, liveVars, classVars, analysisVars, sigVars>>

\* load_session that returns an error: the id has no session row (0 is
\* never issued), or the database handle or one of the queries fails.
LoadSessionFails ==
    /\ \E session_id \in DOMAIN db.sessions \cup {0}, fault \in LoadFaults :
        LET out == load_session_outcome(app, db, session_id, <<>>, <<>>, fault)
        IN /\ session_id \notin DOMAIN db.sessions => fault = "none"
           /\ ~out.ok
           /\ app' = out.app
           /\ last_cmd' = [op |-> IF session_id \in DOMAIN db.sessions
                                  THEN "load_failed" ELSE "load_not_found",
                           session |-> 0]
    /\ UNCHANGED <<db, uuids, saved, cmd_count>>
    /\ UNCHANGED <<aggVars, liveVars, classVars, analysisVars, sigVars>>

NextApp == ImportPcap \/ MergeIngest \/ SaveSession \/ LoadSession

SpecApp == Init /\ [][NextApp]_vars

\* Sessions saved from imported captures and loaded again, with loads that
\* fail.
NextLoad == ImportPcap \/ SaveSession \/ LoadSession \/ LoadSessionFails

SpecLoad == Init /\ [][NextLoad]_vars

\* Levels an edit form may send (a u8) and the edits of the model: a level,
\* a device type, or both.
RequestedLevels == {0, 3, 5, 6}

AssetUpdates ==
    { u \in [device_type : {{}, {"hmi"}}, hostname : {{}}, notes : {{}},
             purdue_level : {{}} \cup { {l} : l \in RequestedLevels },
             tags : {{}}] :
        u.device_type # {} \/ u.purdue_level # {} }

\* update_asset of an asset in memory or of an id that is not.
UpdateAsset ==
    /\ cmd_count < MaxCommands
    /\ \E asset_id \in { a.id : a \in app.assets } \cup {"10.0.0.9"},
          updates \in AssetUpdates :
        LET out == update_asset(app, db, asset_id, updates)
        IN app' = out.app /\ db' = out.db
    /\ last_cmd' = [op |-> "update", session |-> 0]
    /\ cmd_count' = cmd_count + 1
    /\ UNCHANGED <<uuids, saved>>
    /\ UNCHANGED <<aggVars, liveVars, classVars, analysisVars, sigVars>>

\* bulk_update_assets of all the assets in memory, listed as get_assets
\* returns them.
BulkUpdateAssets ==
    /\ cmd_count < MaxCommands
    /\ app.assets # {}
    /\ \E updates \in AssetUpdates :
        LET out == bulk_update_assets(app, db, app.asset_order, updates)
        IN app' = out.app /\ db' = out.db
    /\ last_cmd' = [op |-> "bulk_update", session |-> 0]
    /\ cmd_count' = cmd_count + 1
    /\ UNCHANGED <<uuids, saved>>
    /\ UNCHANGED <<aggVars, liveVars, classVars, analysisVars, sigVars>>

\* run_analysis
RunAnalysis ==
    /\ app' = run_analysis(app)
    /\ last_cmd' = [op |-> "analysis", session |-> 0]
    /\ UNCHANGED <<db, uuids, saved, cmd_count>>
    /\ UNCHANGED <<aggVars, liveVars, classVars, analysisVars, sigVars>>

\* Captures imported, analysed and edited, sessions saved and loaded.
NextEdit ==
    \/ ImportPcap
    \/ SaveSession
    \/ LoadSession
    \/ RunAnalysis
    \/ UpdateAsset
    \/ BulkUpdateAssets

SpecEdit == Init /\ [][NextEdit]_vars

\* update_asset or bulk_update_assets as the command that follows an
\* import_pcap.
EditImported ==
    /\ last_cmd.op = "import"
    /\ \E updates \in AssetUpdates :
        \E out \in { update_asset(app, db, a.id, updates) : a \in app.assets }
                     \cup { bulk_update_assets(app, db, app.asset_order, updates) } :
            app' = out.app /\ db' = out.db
    /\ last_cmd' = [op |-> "update", session |-> 0]
    /\ UNCHANGED <<uuids, saved, cmd_count>>
    /\ UNCHANGED <<aggVars, liveVars, classVars, analysisVars, sigVars>>

\* Sessions saved and loaded, captures imported over them and edited.
NextStale == ImportPcap \/ SaveSession \/ LoadSession \/ EditImported

SpecStale == Init /\ [][NextStale]_vars

\* Captures imported, edited and analysed, without the session store.
NextAnalysis ==
    \/ ImportPcap
    \/ UpdateAsset
    \/ RunAnalysis

SpecAnalysis == Init /\ [][NextAnalysis]_vars

\* ------------------------------------------------------------------------
\* Classification: device type and confidence of one asset
\* ------------------------------------------------------------------------
\* Protocols an IP may have been seen with: OT protocols the rules name, OT
\* protocols they do not name, an IT protocol and Unknown.
InferProtocols ==
    {"Modbus", "EthernetIp", "WonderwareSuitelink", "OpcUa", "Profinet",
     "Http", "Unknown"}

\* infer_device_type is called for one IP.
InferDeviceType ==
    /\ \E protocols \in SUBSET InferProtocols, is_server \in BOOLEAN :
        infer_case' = [called |-> TRUE, protocols |-> protocols,
                       is_server |-> is_server,
                       device_type |-> infer_device_type(protocols, is_server)]
    /\ UNCHANGED conf_case
    /\ UNCHANGED <<aggVars, appVars, liveVars, analysisVars, sigVars>>

SpecInfer == Init /\ [][InferDeviceType]_vars

\* Signature confidences are validated to lie in 1..5; a match may or may
\* not name a vendor.
SignatureMatches ==
    [confidence : 1..5, vendor : {{}, {"Siemens"}}]

\* build_assets scores one asset from its evidence.
ScoreAsset ==
    /\ \E best_match \in { {} } \cup { {m} : m \in SignatureMatches },
          protocols \in { {}, {"Unknown"}, {"Modbus"}, {"Modbus", "Unknown"} },
          oui_vendor \in { {}, {"Rockwell"} },
          device_id \in { {}, {"Schneider"} } :
        conf_case' = [called |-> TRUE, best_match |-> best_match,
                      protocols |-> protocols, oui_vendor |-> oui_vendor,
                      device_id |-> device_id,
                      confidence |-> asset_confidence(best_match, protocols,
                                                      oui_vendor, device_id)]
    /\ UNCHANGED infer_case
    /\ UNCHANGED <<aggVars, appVars, liveVars, analysisVars, sigVars>>

SpecScore == Init /\ [][ScoreAsset]_vars

\* ------------------------------------------------------------------------
\* The signature engine: first load, reloads, single signatures
\* ------------------------------------------------------------------------
MaxDirFiles == 3
MaxSigOps == 2

hex_53 == <<5, 3>>

sig_file(ext, parses, name, confidence, filters) ==
    [ext |-> ext, readable |-> TRUE, parses |-> parses, name |-> name,
     confidence |-> confidence, filters |-> filters]

port_filter(value) == [field |-> "tcp.dst_port", value |-> {value}, pattern |-> {}]

payload_filter(pattern) == [field |-> "payload", value |-> {}, pattern |-> {pattern}]

\* The files a signature directory is made of: three valid fingerprints,
\* and files that fail each in its own way.
SignatureFiles ==
    { sig_file("yaml", TRUE, "modbus_port", 1, << port_filter(502) >>),
      sig_file("yml", TRUE, "schneider", 4,
               << port_filter(502), payload_filter(hex_53) >>),
      sig_file("yaml", TRUE, "payload_s", 4, << payload_filter(hex_53) >>),
      sig_file("yaml", FALSE, "", 0, <<>>),
      sig_file("yaml", TRUE, "conf_six", 6, << port_filter(502) >>),
      sig_file("yaml", TRUE, "odd_hex", 2, << payload_filter(<<5>>) >>),
      [sig_file("yaml", TRUE, "unreadable", 2, << port_filter(502) >>)
          EXCEPT !.readable = FALSE],
      sig_file("txt", TRUE, "notes", 3, << port_filter(502) >>) }

\* The fingerprint texts handed to load_yaml one at a time.
SignatureTexts ==
    { sig_file("yaml", TRUE, "modbus_port", 1, << port_filter(502) >>),
      sig_file("yaml", FALSE, "", 0, <<>>),
      sig_file("yaml", TRUE, "conf_zero", 0, << port_filter(502) >>),
      sig_file("yaml", TRUE, "conf_six", 6, << port_filter(502) >>),
      sig_file("yaml", TRUE, "bad_port", 2, << port_filter(70000) >>) }

\* The frames the loaded signatures are matched against.
SignaturePackets ==
    { [transport |-> "tcp", src_port |-> 40000, dst_port |-> p, protocol |-> "modbus",
       payload |-> pl] : p \in {502, 80}, pl \in { <<>>, <<83>>, <<0, 83>> } }

\* The directory is fixed: its files, in the order read_dir lists them.
SetUpDirectory ==
    /\ ~sig_dir_set
    /\ \E files \in SUBSET SignatureFiles :
          /\ Cardinality(files) <= MaxDirFiles
          /\ \E listing \in Orderings(files) : sig_listing' = listing
    /\ sig_dir_set' = TRUE
    /\ UNCHANGED <<engine, sig_log, sig_ops>>
    /\ UNCHANGED <<aggVars, appVars, liveVars, classVars, analysisVars>>

\* AppState::new: the first load of the directory into a new engine.
LoadDirectory ==
    /\ sig_dir_set
    /\ engine.signature_dir = {}
    /\ sig_log.op = "none"
    /\ LET r == load_directory(engine, "signatures", sig_listing)
       IN /\ engine' = r.engine
          /\ sig_log' = [op |-> "load_directory", kind |-> r.kind, count |-> r.count,
                         yaml |-> {}, before |-> engine,
                         first |-> r.engine, first_count |-> r.count]
    /\ UNCHANGED <<sig_listing, sig_dir_set, sig_ops>>
    /\ UNCHANGED <<aggVars, appVars, liveVars, classVars, analysisVars>>

\* reload_signatures
ReloadSignatures ==
    /\ sig_dir_set
    /\ sig_ops < MaxSigOps
    /\ LET r == reload(engine, sig_listing)
       IN /\ engine' = r.engine
          /\ sig_log' = [sig_log EXCEPT !.op = "reload", !.kind = r.kind,
                                        !.count = r.count, !.yaml = {},
                                        !.before = engine]
    /\ sig_ops' = sig_ops + 1
    /\ UNCHANGED <<sig_listing, sig_dir_set>>
    /\ UNCHANGED <<aggVars, appVars, liveVars, classVars, analysisVars>>

\* load_yaml of one fingerprint text
LoadYaml ==
    /\ sig_ops < MaxSigOps
    /\ \E yaml \in SignatureTexts :
        LET r == load_yaml(engine, yaml)
        IN /\ engine' = r.engine
           /\ sig_log' = [sig_log EXCEPT !.op = "load_yaml", !.kind = r.kind,
                                         !.count = 0, !.yaml = {yaml},
                                         !.before = engine]
    /\ sig_ops' = sig_ops + 1
    /\ UNCHANGED <<sig_listing, sig_dir_set>>
    /\ UNCHANGED <<aggVars, appVars, liveVars, classVars, analysisVars>>

NextSignatures ==
    \/ SetUpDirectory
    \/ LoadDirectory
    \/ ReloadSignatures
    \/ LoadYaml

SpecSignatures == Init /\ [][NextSignatures]_vars

\* ------------------------------------------------------------------------
\* Analysis passes on their own: violation detector and T0846 detector
\* ------------------------------------------------------------------------
\* The addresses, levels and connections the violation detector is given.
MaxViolationConns == 3

AnalysisIPs == {"10.0.0.1", "10.0.0.2", "10.0.0.3"}

ViolationLevels == {1, 2, 4, 5}

ViolationConns ==
    { [src_ip |-> p[1], dst_ip |-> p[2], src_port |-> 40000, dst_port |-> 502,
       protocol |-> "Modbus", packet_count |-> 1]
        : p \in { q \in AnalysisIPs \X AnalysisIPs : q[1] # q[2] } }

\* detect_purdue_violations on one assignment per address and a Vec of
\* connections, several of them possibly between the same two addresses.
DetectViolations ==
    /\ ~viol_case.called
    /\ \E levels \in [AnalysisIPs -> ViolationLevels],
          n \in 0..MaxViolationConns :
        \E connections \in [1..n -> ViolationConns] :
          LET order == CHOOSE o \in Orderings(AnalysisIPs) : TRUE
              assignments == [i \in DOMAIN order |->
                                 [ip_address |-> order[i], level |-> levels[order[i]],
                                  method |-> "Auto"]]
              input == [assets |-> <<>>, connections |-> connections]
          IN viol_case' = [called |-> TRUE, assignments |-> assignments,
                           connections |-> connections,
                           findings |-> detect_purdue_violations(input, assignments)]
    /\ UNCHANGED scan_case
    /\ UNCHANGED <<aggVars, appVars, liveVars, classVars, sigVars>>

SpecViolations == Init /\ [][DetectViolations]_vars

\* The source and the destinations the T0846 detector is given: the source
\* has no asset record or one of three types, each destination is a PLC or
\* of unknown type and is reached on port 502, on port 80, or not at all.
ScanSource == "10.0.0.1"

ScanTargets == {"10.0.0.2", "10.0.0.3", "10.0.0.4"}

scan_asset(ip, device_type) ==
    [ip_address |-> ip, device_type |-> device_type, protocols |-> {},
     purdue_level |-> {}]

DetectT0846 ==
    /\ ~scan_case.called
    /\ \E src_type \in {"", "unknown", "it_device", "hmi"},
          dst_type \in [ScanTargets -> {"plc", "unknown"}],
          dst_port \in [ScanTargets -> {0, 502, 80}] :
        LET targets == CHOOSE o \in Orderings(ScanTargets) : TRUE
            reached == SelectSeq(targets, LAMBDA ip : dst_port[ip] # 0)
            assets == (IF src_type = "" THEN <<>>
                       ELSE << scan_asset(ScanSource, src_type) >>)
                      \o [i \in DOMAIN targets |->
                             scan_asset(targets[i], dst_type[targets[i]])]
            connections == [i \in DOMAIN reached |->
                               [src_ip |-> ScanSource, dst_ip |-> reached[i],
                                src_port |-> 40000, dst_port |-> dst_port[reached[i]],
                                protocol |-> "Modbus", packet_count |-> 1]]
            input == [assets |-> assets, connections |-> connections]
        IN \E findings \in detect_t0846_remote_discovery(input) :
             scan_case' = [called |-> TRUE, assets |-> assets,
                           connections |-> connections, findings |-> findings]
    /\ UNCHANGED viol_case
    /\ UNCHANGED <<aggVars, appVars, liveVars, classVars, sigVars>>

SpecT0846 == Init /\ [][DetectT0846]_vars

\* ------------------------------------------------------------------------
\* gm-capture: LiveCaptureHandle (reader thread, flags, channel, ring)
\* ------------------------------------------------------------------------
\* Frames the interface delivers in a run, and the largest capacity the ring
\* buffer is configured with.
MaxCaptured == 3
RingBufferSize == 2

\* The connections (5-tuples) the captured frames belong to.
Conns == {"c1", "c2"}

\* The reader thread does not exist yet, is at the top of its loop (about to
\* load the stop flag), about to load the pause flag, asleep because paused,
\* inside cap.next_packet(), or finished.
ReaderPcs == {"idle", "top", "check_pause", "sleep", "read", "done"}

\* LiveCaptureHandle::start: the channel, the flags, the counters and the
\* empty ring are created, the capacity is taken from the configuration and
\* the reader thread is spawned.
Start ==
    /\ reader_pc = "idle"
    /\ reader_pc' = "top"
    /\ \E size \in 0..RingBufferSize : ring_buffer_size' = size
    /\ UNCHANGED <<stop_flag, pause_flag, reader_result, packets_captured,
                   bytes_captured, raw_packets, chan, rx_open, received,
                   stop_pc, captured_in_pause, stop_result, pcap_file, at_error>>
    /\ UNCHANGED <<aggVars, appVars, classVars, analysisVars, sigVars>>

\* Variant of ReaderCheckStop for a loop that tests the pause flag before the
\* stop flag: a paused reader sleeps and starts over without looking at the
\* stop flag.
ReaderCheckStop_PauseFirst ==
    /\ reader_pc = "top"
    /\ IF pause_flag
       THEN reader_pc' = "sleep" /\ UNCHANGED reader_result
       ELSE IF stop_flag
       THEN reader_pc' = "done" /\ reader_result' = "ok"
       ELSE reader_pc' = "check_pause" /\ UNCHANGED reader_result
    /\ UNCHANGED <<stop_flag, pause_flag, packets_captured, bytes_captured,
                   raw_packets, chan, rx_open, received, stop_pc,
                   captured_in_pause, ring_buffer_size, stop_result,
                   pcap_file, at_error>>
    /\ UNCHANGED <<aggVars, appVars, classVars, analysisVars, sigVars>>

\* if stop.load() { break; }  -- after the loop the thread returns Ok(()).
ReaderCheckStop ==
    /\ reader_pc = "top"
    /\ IF stop_flag
       THEN reader_pc' = "done" /\ reader_result' = "ok"
       ELSE reader_pc' = "check_pause" /\ UNCHANGED reader_result
    /\ UNCHANGED <<stop_flag, pause_flag, packets_captured, bytes_captured,
                   raw_packets, chan, rx_open, received, stop_pc,
                   captured_in_pause, ring_buffer_size, stop_result,
                   pcap_file, at_error>>
    /\ UNCHANGED <<aggVars, appVars, classVars, analysisVars, sigVars>>

\* Variant of ReaderCheckPause for a loop that never looks at the pause flag.
ReaderCheckPause_IgnoresFlag ==
    /\ reader_pc = "check_pause"
    /\ reader_pc' = "read"
    /\ UNCHANGED <<stop_flag, pause_flag, reader_result, packets_captured,
                   bytes_captured, raw_packets, chan, rx_open, received,
                   stop_pc, captured_in_pause, ring_buffer_size, stop_result,
                   pcap_file, at_error>>
    /\ UNCHANGED <<aggVars, appVars, classVars, analysisVars, sigVars>>

\* if pause.load() { sleep(50 ms); continue; }  -- otherwise next_packet().
ReaderCheckPause ==
    /\ reader_pc = "check_pause"
    /\ reader_pc' = IF pause_flag THEN "sleep" ELSE "read"
    /\ UNCHANGED <<stop_flag, pause_flag, reader_result, packets_captured,
                   bytes_captured, raw_packets, chan, rx_open, received,
                   stop_pc, captured_in_pause, ring_buffer_size, stop_result,
                   pcap_file, at_error>>
    /\ UNCHANGED <<aggVars, appVars, classVars, analysisVars, sigVars>>

\* The 50 ms sleep is over: continue.
ReaderWake ==
    /\ reader_pc = "sleep"
    /\ reader_pc' = "top"
    /\ UNCHANGED <<stop_flag, pause_flag, reader_result, packets_captured,
                   bytes_captured, raw_packets, chan, rx_open, received,
                   stop_pc, captured_in_pause, ring_buffer_size, stop_result,
                   pcap_file, at_error>>
    /\ UNCHANGED <<aggVars, appVars, classVars, analysisVars, sigVars>>

\* VecDeque::pop_front: the first entry is removed; nothing happens on an
\* empty deque.
pop_front(ring) == IF ring = <<>> THEN ring ELSE Tail(ring)

\* The ring buffer after a frame is stored:
\* if ring.len() >= ring_buffer_size { ring.pop_front(); } ring.push_back(..)
ring_push(ring, size, frame) ==
    Append(IF Len(ring) >= size THEN pop_front(ring) ELSE ring, frame)

\* next_packet() returned Ok: counters, ring buffer, then the frame is parsed
\* and, if it is an IP frame, sent; a failed send ends the loop with Ok(()).
\* A frame is named by its capture sequence number; the parsed packet that
\* is sent carries the connection it belongs to.
ReaderReadPacket ==
    /\ reader_pc = "read"
    /\ packets_captured < MaxCaptured
    /\ \E parsed \in BOOLEAN, conn \in Conns, length \in FrameLens :
        LET frame == packets_captured + 1
        IN /\ packets_captured' = packets_captured + 1
           /\ bytes_captured' = bytes_captured + length
           /\ raw_packets' = ring_push(raw_packets, ring_buffer_size, frame)
           /\ IF parsed
              THEN IF rx_open
                   THEN /\ chan' = Append(chan, [seq |-> frame, conn |-> conn])
                        /\ reader_pc' = "top"
                        /\ UNCHANGED reader_result
                   ELSE /\ reader_pc' = "done"
                        /\ reader_result' = "ok"
                        /\ UNCHANGED chan
              ELSE /\ reader_pc' = "top"
                   /\ UNCHANGED <<chan, reader_result>>
    /\ captured_in_pause' = IF pause_flag THEN captured_in_pause + 1
                            ELSE captured_in_pause
    /\ UNCHANGED <<stop_flag, pause_flag, rx_open, received, stop_pc,
                   ring_buffer_size, stop_result, pcap_file, at_error>>
    /\ UNCHANGED <<aggVars, appVars, classVars, analysisVars, sigVars>>

\* next_packet() returned Err(TimeoutExpired) after 100 ms: continue.
ReaderReadTimeout ==
    /\ reader_pc = "read"
    /\ reader_pc' = "top"
    /\ UNCHANGED <<stop_flag, pause_flag, reader_result, packets_captured,
                   bytes_captured, raw_packets, chan, rx_open, received,
                   stop_pc, captured_in_pause, ring_buffer_size, stop_result,
                   pcap_file, at_error>>
    /\ UNCHANGED <<aggVars, appVars, classVars, analysisVars, sigVars>>

\* What had been accumulated when the capture call is about to fail.
AccumulatedState ==
    [ring |-> raw_packets, packets |-> packets_captured,
     bytes |-> bytes_captured, received |-> received, queued |-> chan]

\* Variant of ReaderReadError for a thread that releases the ring buffer
\* when it gives up.
ReaderReadError_ClearsRing ==
    /\ reader_pc = "read"
    /\ reader_pc' = "done"
    /\ reader_result' = "err"
    /\ raw_packets' = <<>>
    /\ at_error' = AccumulatedState
    /\ UNCHANGED <<stop_flag, pause_flag, packets_captured, bytes_captured,
                   chan, rx_open, received, stop_pc, captured_in_pause,
                   ring_buffer_size, stop_result, pcap_file>>
    /\ UNCHANGED <<aggVars, appVars, classVars, analysisVars, sigVars>>

\* next_packet() returned another error: the thread logs it and returns
\* Err(Capture); nothing else is touched.
ReaderReadError ==
    /\ reader_pc = "read"
    /\ reader_pc' = "done"
    /\ reader_result' = "err"
    /\ at_error' = AccumulatedState
    /\ UNCHANGED <<stop_flag, pause_flag, packets_captured, bytes_captured,
                   raw_packets, chan, rx_open, received, stop_pc,
                   captured_in_pause, ring_buffer_size, stop_result, pcap_file>>
    /\ UNCHANGED <<aggVars, appVars, classVars, analysisVars, sigVars>>

Reader ==
    \/ ReaderCheckStop
    \/ ReaderCheckPause
    \/ ReaderWake
    \/ ReaderReadPacket
    \/ ReaderReadTimeout
    \/ ReaderReadError

\* LiveCaptureHandle::pause
Pause ==
    /\ reader_pc # "idle"
    /\ stop_pc # "joining"
    /\ ~pause_flag
    /\ pause_flag' = TRUE
    /\ captured_in_pause' = 0
    /\ UNCHANGED <<stop_flag, reader_pc, reader_result, packets_captured,
                   bytes_captured, raw_packets, chan, rx_open, received,
                   stop_pc, ring_buffer_size, stop_result, pcap_file, at_error>>
    /\ UNCHANGED <<aggVars, appVars, classVars, analysisVars, sigVars>>

\* LiveCaptureHandle::resume
Resume ==
    /\ reader_pc # "idle"
    /\ stop_pc # "joining"
    /\ pause_flag
    /\ pause_flag' = FALSE
    /\ captured_in_pause' = 0
    /\ UNCHANGED <<stop_flag, reader_pc, reader_result, packets_captured,
                   bytes_captured, raw_packets, chan, rx_open, received,
                   stop_pc, ring_buffer_size, stop_result, pcap_file, at_error>>
    /\ UNCHANGED <<aggVars, appVars, classVars, analysisVars, sigVars>>

\* LiveCaptureHandle::is_running: the negation of the stop flag.
is_running == ~stop_flag

\* LiveCaptureHandle::stop, first statement: the stop flag is stored; the
\* caller then waits in join().
StopRequest ==
    /\ reader_pc # "idle"
    /\ stop_pc = "idle"
    /\ stop_flag' = TRUE
    /\ stop_pc' = "joining"
    /\ UNCHANGED <<pause_flag, reader_pc, reader_result, packets_captured,
                   bytes_captured, raw_packets, chan, rx_open, received,
                   captured_in_pause, ring_buffer_size, stop_result,
                   pcap_file, at_error>>
    /\ UNCHANGED <<aggVars, appVars, classVars, analysisVars, sigVars>>

\* LiveCaptureHandle::stop, join(): returns the thread's result once the
\* thread has finished.
StopJoin ==
    /\ stop_pc = "joining"
    /\ reader_pc = "done"
    /\ stop_pc' = "returned"
    /\ stop_result' = reader_result
    /\ UNCHANGED <<stop_flag, pause_flag, reader_pc, reader_result,
                   packets_captured, bytes_captured, raw_packets, chan,
                   rx_open, received, captured_in_pause, ring_buffer_size,
                   pcap_file, at_error>>
    /\ UNCHANGED <<aggVars, appVars, classVars, analysisVars, sigVars>>

\* LiveCaptureHandle::save_to_pcap: Ok(0) and no file when the ring is
\* empty, otherwise every frame of the ring is written front to back.  One
\* file is written in a run.
SaveToPcap ==
    /\ reader_pc # "idle"
    /\ stop_pc # "joining"
    /\ ~pcap_file.written
    /\ IF raw_packets = <<>>
       THEN UNCHANGED pcap_file
       ELSE pcap_file' = [written |-> TRUE, frames |-> raw_packets,
                          reader |-> reader_result]
    /\ UNCHANGED <<stop_flag, pause_flag, reader_pc, reader_result,
                   packets_captured, bytes_captured, raw_packets, chan,
                   rx_open, received, stop_pc, captured_in_pause,
                   ring_buffer_size, stop_result, at_error>>
    /\ UNCHANGED <<aggVars, appVars, classVars, analysisVars, sigVars>>

\* Variant of Receive for a queue that hands out the newest frame first.
Receive_NewestFirst ==
    /\ rx_open
    /\ chan # <<>>
    /\ received' = Append(received, chan[Len(chan)])
    /\ chan' = SubSeq(chan, 1, Len(chan) - 1)
    /\ UNCHANGED <<stop_flag, pause_flag, reader_pc, reader_result,
                   packets_captured, bytes_captured, raw_packets, rx_open,
                   stop_pc, captured_in_pause, ring_buffer_size, stop_result,
                   pcap_file, at_error>>
    /\ UNCHANGED <<aggVars, appVars, classVars, analysisVars, sigVars>>

\* The consumer takes the oldest frame out of the channel (mpsc recv); what
\* was queued stays receivable after the sender is gone.
Receive ==
    /\ rx_open
    /\ chan # <<>>
    /\ received' = Append(received, Head(chan))
    /\ chan' = Tail(chan)
    /\ UNCHANGED <<stop_flag, pause_flag, reader_pc, reader_result,
                   packets_captured, bytes_captured, raw_packets, rx_open,
                   stop_pc, captured_in_pause, ring_buffer_size, stop_result,
                   pcap_file, at_error>>
    /\ UNCHANGED <<aggVars, appVars, classVars, analysisVars, sigVars>>

\* The consumer drops the Receiver: the channel is closed and what was
\* queued is dropped with it.
CloseReceiver ==
    /\ reader_pc # "idle"
    /\ rx_open
    /\ rx_open' = FALSE
    /\ chan' = <<>>
    /\ UNCHANGED <<stop_flag, pause_flag, reader_pc, reader_result,
                   packets_captured, bytes_captured, raw_packets, received,
                   stop_pc, captured_in_pause, ring_buffer_size, stop_result,
                   pcap_file, at_error>>
    /\ UNCHANGED <<aggVars, appVars, classVars, analysisVars, sigVars>>

NextLive ==
    \/ Start
    \/ Reader
    \/ Pause
    \/ Resume
    \/ StopRequest
    \/ StopJoin
    \/ SaveToPcap
    \/ Receive
    \/ CloseReceiver

SpecLive == Init /\ [][NextLive]_vars

\* The reader is a thread of its own that the operating system keeps
\* scheduling, its sleep and its capture call return after 50 and 100 ms;
\* join() returns once the thread has finished.
FairLive == SpecLive /\ WF_vars(Reader) /\ WF_vars(StopJoin)

Next ==
    NextAgg \/ NextApp \/ NextLoad \/ NextEdit \/ NextStale \/ NextAnalysis
        \/ NextLive
        \/ InferDeviceType \/ ScoreAsset \/ DetectViolations \/ DetectT0846
        \/ NextSignatures

Spec == Init /\ [][Next]_vars

\* ------------------------------------------------------------------------
\* Properties of the aggregator
\* ------------------------------------------------------------------------
RECURSIVE SumPacketCount(_)
SumPacketCount(S) ==
    IF S = {} THEN 0
    ELSE LET c == CHOOSE x \in S : TRUE
         IN c.packet_count + SumPacketCount(S \ {c})

HasReverseEdge(edges, e) ==
    \E r \in edges :
        r.source = e.target /\ r.target = e.source /\ r.protocol = e.protocol

\* C2: in every connection snapshot produced by the aggregator, every
\* connection has first_seen <= last_seen, whatever the order of the frame
\* timestamps.
C2_FirstSeenNotAfterLastSeen ==
    \A c \in last_snap.connections : c.first_seen <= c.last_seen

\* C3: in every topology snapshot, an edge's bidirectional flag is true if
\* and only if the reverse edge (dst, src, protocol) is in the same snapshot.
C3_BidirectionalIffReversePresent ==
    \A e \in last_snap.topology.edges :
        e.bidirectional <=> HasReverseEdge(last_snap.topology.edges, e)

\* C5: after N frames have been processed, the packet_count of all
\* connections sums to N, in the processor and in every snapshot read out.
C5_PacketCountSumEqualsFrames ==
    /\ SumPacketCount(get_connections(proc)) = proc.total_packets
    /\ SumPacketCount(last_snap.connections) = last_snap.total_packets

\* C5 witness: a snapshot of three frames spread over two connections.
C5_Witness ==
    /\ last_snap.total_packets = 3
    /\ Cardinality(last_snap.connections) = 2

\* C6: reading a snapshot out of the processor changes nothing a later
\* snapshot reports: the processor that was read out and the one that never
\* was, fed the same frames, yield the same topology, connections and assets.
C6_SnapshotDoesNotDrain ==
    View(proc) = View(shadow)

\* C6 witness: frames A, a snapshot, then frames B on a connection that the
\* snapshot already reported, now seen in both capture files.
C6_Witness ==
    /\ snap_count >= 1
    /\ last_snap.total_packets >= 1
    /\ proc.total_packets > last_snap.total_packets
    /\ proc # shadow
    /\ \E c \in get_connections(proc) :
          /\ c.origin_files = OriginFiles
          /\ \E d \in last_snap.connections : d.id = c.id /\ d.origin_files # OriginFiles

\* ------------------------------------------------------------------------
\* Properties of the command surface
\* ------------------------------------------------------------------------
EndpointIPs(conns) == { c.src_ip : c \in conns } \cup { c.dst_ip : c \in conns }

\* C1: when load_session(S) has completed, the assets and connections in
\* memory are those that were in memory when save_session returned S.
C1_LoadRestoresSavedState ==
    last_cmd.op = "load" =>
        /\ app.assets = saved[last_cmd.session].assets
        /\ app.connections = saved[last_cmd.session].connections

\* C4: in every state the command surface exposes (after import, ingest
\* merge, session load) and in every snapshot of the aggregator, the IPs of
\* the topology nodes are exactly the IPs that are source or destination of
\* a connection.
C4_TopologyNodesAreConnectionEndpoints ==
    /\ NodeIPs(app.topology) = EndpointIPs(app.connections)
    /\ NodeIPs(last_snap.topology) = EndpointIPs(last_snap.connections)

\* C4 witness: a session was loaded whose connections come from a capture
\* file and from an ingested log that brought a third host.
C4_Witness ==
    /\ last_cmd.op = "load"
    /\ NodeIPs(app.topology) = {"10.0.0.1", "10.0.0.2", "10.0.0.3"}
    /\ \E c \in app.connections : "a.pcap" \in c.origin_files
    /\ \E c \in app.connections : c.origin_files = {"[Zeek]"}

\* C14: a load_session call that fails (unknown session id, no database, a
\* failing read) leaves assets, connections, topology, imported-file list and
\* current session id exactly as they were before the call.
C14_FailedLoadLeavesState ==
    [][last_cmd'.op \in {"load_failed", "load_not_found"} => app' = app]_vars

\* C14 witness: a load of a stored session has failed while a session was
\* loaded, its assets were in memory and another session was stored.
C14_Witness ==
    /\ last_cmd.op = "load_failed"
    /\ app.current_session_id # {}
    /\ app.assets # {}
    /\ Cardinality(DOMAIN db.sessions) >= 2

\* C15: when load_session(S) has completed, the topology (node set and edge
\* set keyed by (src, dst, protocol)) and the imported-file list are those
\* that were in memory when save_session returned S.
C15_LoadRestoresWorkingView ==
    last_cmd.op = "load" =>
        /\ NodeIPs(app.topology) = saved[last_cmd.session].nodes
        /\ EdgeKeys(app.topology) = saved[last_cmd.session].edges
        /\ app.imported_files = saved[last_cmd.session].imported_files

\* A list of assets has the OT device types first and, within the OT group
\* and within the rest, descending packet counts.
OrderedAssets(list) ==
    \A i, j \in DOMAIN list :
        i < j =>
            /\ is_ot_device(list[j]) => is_ot_device(list[i])
            /\ is_ot_device(list[i]) = is_ot_device(list[j]) =>
                   list[i].packet_count >= list[j].packet_count

KeepsPassiveObservations(before, after) ==
    /\ \A a \in before.assets :
          \E b \in after.assets :
              /\ b.id = a.id
              /\ a.hostname # "" => b.hostname = a.hostname
              /\ a.vendor # "" => b.vendor = a.vendor
              /\ b.device_type = a.device_type
              /\ b.confidence = a.confidence
    /\ \A c \in before.connections :
          \E d \in after.connections : d.id = c.id /\ d.protocol = c.protocol
    /\ NodeIPs(before.topology) \subseteq NodeIPs(after.topology)
    /\ EdgeKeys(before.topology) \subseteq EdgeKeys(after.topology)

\* C16: merging an ingest result replaces nothing that was observed before:
\* assets, connections, topology nodes and edges are all still there with
\* their populated values.
C16_IngestKeepsPassiveObservations ==
    [][(last_cmd'.op = "ingest" /\ cmd_count' # cmd_count) =>
           KeepsPassiveObservations(app, app')]_vars

\* ------------------------------------------------------------------------
\* Properties of the live capture
\* ------------------------------------------------------------------------
\* C7: once stop has been requested, the reader thread eventually finishes
\* and stop() returns, paused or not, consumer receiving or not.
C7_StopTerminatesReader ==
    stop_flag ~> (reader_pc = "done" /\ stop_pc = "returned")

\* C7 witness: stop() has returned from a capture that was paused and whose
\* receiver had been dropped; the reader ended through the stop flag.
C7_Witness ==
    /\ stop_pc = "returned"
    /\ pause_flag
    /\ ~rx_open
    /\ reader_result = "ok"
    /\ packets_captured = 0

\* C8: once the receiving end of the channel is closed, the reader thread
\* eventually terminates on its own.
C8_ClosedChannelTerminatesReader ==
    (~rx_open) ~> (reader_pc = "done")

\* A capacity the channel would have to respect if it were bounded.
ChannelCapacity == 2

\* C9: the number of frames queued in the channel never exceeds a fixed
\* capacity, however slowly the consumer receives.
C9_ChannelBounded ==
    Len(chan) <= ChannelCapacity

C11_ReadErrorKeepsAccumulatedState ==
    reader_result = "err" =>
        /\ reader_pc = "done"
        /\ raw_packets = at_error.ring
        /\ packets_captured = at_error.packets
        /\ bytes_captured = at_error.bytes
        /\ Len(received) >= Len(at_error.received)
        /\ SubSeq(received, 1, Len(at_error.received)) = at_error.received
        /\ rx_open => received \o chan = at_error.received \o at_error.queued
        /\ stop_pc = "returned" => stop_result = "err"
        /\ (pcap_file.written /\ pcap_file.reader = "err") =>
               pcap_file.frames = at_error.ring

\* C11 witness: the read failed after frames had been captured, stop() has
\* returned the error, the ring was saved after the failure and the consumer
\* has since received a frame that was queued when the read failed.
C11_Witness ==
    /\ reader_result = "err"
    /\ stop_result = "err"
    /\ Len(at_error.ring) >= 1
    /\ pcap_file.written
    /\ pcap_file.reader = "err"
    /\ Len(received) > Len(at_error.received)

\* C12: any two frames of the same connection are received by the consumer
\* in the order in which they were captured.
C12_SameConnectionFramesInCaptureOrder ==
    \A i, j \in 1..Len(received) :
        (i < j /\ received[i].conn = received[j].conn) =>
            received[i].seq < received[j].seq

\* C12 witness: three frames were received, the first and the third of one
\* connection and the second of another.
C12_Witness ==
    /\ Len(received) = 3
    /\ received[1].conn = received[3].conn
    /\ received[2].conn # received[1].conn

\* The n most recently captured frames out of the first `captured`, oldest
\* first.
MostRecent(captured, n) ==
    LET k == IF captured < n THEN captured ELSE n
    IN [i \in 1..k |-> captured - k + i]

\* C13: for every configured capacity the ring buffer never holds more than
\* ring_buffer_size frames, and it holds the most recently captured frames
\* in capture order.
C13_RingHoldsMostRecentFrames ==
    /\ Len(raw_packets) <= ring_buffer_size
    /\ raw_packets = MostRecent(packets_captured, ring_buffer_size)

\* The same for the capacities of at least one frame.
C13_HoldsForPositiveCapacity ==
    ring_buffer_size >= 1 => C13_RingHoldsMostRecentFrames

\* ------------------------------------------------------------------------
\* Properties of the classification
\* ------------------------------------------------------------------------
Max(S) == CHOOSE x \in S : \A y \in S : y <= x

\* The evidence that applies to an asset, as confidence values: port-based
\* identification of a protocol (1, else 0), the best signature match (its
\* confidence), an OUI vendor where no signature names the vendor (3), and
\* a Modbus device identification (5).
Evidence(c) ==
    {IF \E x \in c.protocols : x # "Unknown" THEN 1 ELSE 0}
    \cup { m.confidence : m \in c.best_match }
    \cup (IF c.oui_vendor # {} /\ (\A m \in c.best_match : m.vendor = {})
          THEN {3} ELSE {})
    \cup (IF c.device_id # {} THEN {5} ELSE {})

RuleTable(protocols, is_server) ==
    LET N == Cardinality({ x \in protocols : is_ot(x) })
    IN IF is_server /\ protocols \cap {"EthernetIp", "S7comm", "GeSrtp", "Bacnet"} # {}
       THEN "plc"
       ELSE IF is_server /\ protocols \cap {"Modbus", "Dnp3"} # {} THEN "rtu"
       ELSE IF "WonderwareSuitelink" \in protocols /\ is_server THEN "scada_server"
       ELSE IF N >= 2 THEN "hmi"
       ELSE IF "OpcUa" \in protocols /\ N = 1 THEN "historian"
       ELSE IF N = 0 THEN "it_device"
       ELSE "unknown"

\* C19: for every set of observed protocols and every is_server flag the
\* inferred device type is the result of the first matching row of the
\* rule table.
C19_InferFollowsRuleTable ==
    infer_case.called =>
        infer_case.device_type = RuleTable(infer_case.protocols, infer_case.is_server)

\* The rows of the table on which the code agrees with it: everything but
\* a server whose OT protocols are none of those of the first two rows.
C19_AgreesOffServerRows ==
    (infer_case.called
       /\ ~(infer_case.is_server
             /\ \E x \in infer_case.protocols : is_ot(x)
             /\ infer_case.protocols
                   \cap {"EthernetIp", "S7comm", "GeSrtp", "Bacnet", "Modbus", "Dnp3"} = {}))
    => infer_case.device_type = RuleTable(infer_case.protocols, infer_case.is_server)

\* ------------------------------------------------------------------------
\* Properties of the asset edits
\* ------------------------------------------------------------------------
\* C20: in every reachable state each asset's purdue_level is unset or one
\* of 1, 2, 3, 4, whatever levels update_asset and bulk_update_assets were
\* asked for.
C20_PurdueLevelUnsetOrOneToFour ==
    \A a \in app.assets : a.purdue_level \subseteq 1..4

\* The levels run_analysis assigns are within 1..4: an asset whose level
\* was unset before the call has one of them after it.
C20_AutoAssignedLevelsInRange ==
    [][last_cmd'.op = "analysis" =>
          \A a \in app.assets :
              a.purdue_level = {} =>
                  \E b \in app'.assets :
                      b.id = a.id /\ b.purdue_level # {} /\ b.purdue_level \subseteq 1..4]_vars

\* ------------------------------------------------------------------------
\* Properties of the analysis passes
\* ------------------------------------------------------------------------
\* The assignment stored for an address, if there is one.
AssignmentsFor(state, ip) ==
    { state.purdue_assignments[i] : i \in
        { j \in DOMAIN state.purdue_assignments :
            state.purdue_assignments[j].ip_address = ip } }

\* C21: a run of the analysis never changes a level that is already set:
\* for every asset with a level, the assignment reports that level with
\* method Manual, and the asset keeps the level.
C21_ManualLevelPreserved ==
    [][last_cmd'.op = "analysis" =>
          \A a \in app.assets :
              a.purdue_level # {} =>
                  /\ AssignmentsFor(app', a.ip_address) =
                         { [ip_address |-> a.ip_address,
                            level |-> CHOOSE l \in a.purdue_level : TRUE,
                            method |-> "Manual"] }
                  /\ \E b \in app'.assets :
                         b.id = a.id /\ b.purdue_level = a.purdue_level]_vars

\* An analysis has run on an asset whose level (5) was set by hand and is
\* none that the heuristics give.
C21_Witness ==
    /\ last_cmd.op = "analysis"
    /\ \E a \in app.assets :
          /\ a.purdue_level = {5}
          /\ AssignmentsFor(app, a.ip_address) =
                 { [ip_address |-> a.ip_address, level |-> 5, method |-> "Manual"] }

\* The endpoints of a finding as an unordered pair.
EndpointPair(f) == { f.affected_assets[1], f.affected_assets[2] }

\* The severities of the violations detected on the connections between
\* the two addresses of a pair, in either direction.
DetectedSeverities(c, pair) ==
    { v.severity : v \in UNION
        { Range(connection_violations(c.connections[i], level_map(c.assignments)))
            : i \in { j \in DOMAIN c.connections :
                        {c.connections[j].src_ip, c.connections[j].dst_ip} = pair } } }

\* C22: after deduplication there is at most one finding per unordered
\* endpoint pair, and its severity is the highest among the violations
\* detected between the two endpoints in either direction.
C22_OneFindingPerPairHighestSeverity ==
    viol_case.called =>
        LET f == viol_case.findings
        IN /\ \A i, j \in DOMAIN f :
                 EndpointPair(f[i]) = EndpointPair(f[j]) => i = j
           /\ \A i \in DOMAIN f :
                 /\ f[i].severity \in DetectedSeverities(viol_case, EndpointPair(f[i]))
                 /\ \A s \in DetectedSeverities(viol_case, EndpointPair(f[i])) :
                        severity_rank(s) <= severity_rank(f[i].severity)
           /\ \A i \in DOMAIN viol_case.connections :
                 LET pair == {viol_case.connections[i].src_ip,
                              viol_case.connections[i].dst_ip}
                 IN DetectedSeverities(viol_case, pair) # {} =>
                        \E k \in DOMAIN f : EndpointPair(f[k]) = pair

\* Violations were detected in both directions between two endpoints and
\* one finding stands for them.
C22_Witness ==
    /\ viol_case.called
    /\ \E i, j \in DOMAIN viol_case.connections :
          /\ viol_case.connections[i].src_ip = viol_case.connections[j].dst_ip
          /\ viol_case.connections[i].dst_ip = viol_case.connections[j].src_ip
          /\ DetectedSeverities(viol_case, {viol_case.connections[i].src_ip,
                                             viol_case.connections[i].dst_ip}) # {}
    /\ Len(viol_case.findings) = 1

\* The destinations a source reaches on an OT server port that are OT
\* devices.
OtDestinations(c, src) ==
    { c.connections[i].dst_ip : i \in
        { j \in DOMAIN c.connections :
            /\ c.connections[j].src_ip = src
            /\ c.connections[j].dst_port \in OT_SERVER_PORTS
            /\ \E k \in DOMAIN c.assets :
                  /\ c.assets[k].ip_address = c.connections[j].dst_ip
                  /\ c.assets[k].device_type \in
                        {"plc", "rtu", "hmi", "historian",
                         "engineering_workstation", "scada_server"} } }

\* The device type of a source; a source without an asset record counts
\* as unknown.
SourceType(c, src) ==
    IF \E k \in DOMAIN c.assets : c.assets[k].ip_address = src
    THEN (CHOOSE a \in Range(c.assets) : a.ip_address = src).device_type
    ELSE "unknown"

\* C23: the T0846 detector gives a High finding for a source exactly when
\* the source is typed it_device or unknown and reaches at least three
\* distinct OT devices on OT server ports; a source that is an OT device
\* gives none.
C23_FindingIffThreeOtDestinations ==
    scan_case.called =>
        ((\E i \in DOMAIN scan_case.findings :
             /\ scan_case.findings[i].affected_assets[1] = ScanSource
             /\ scan_case.findings[i].severity = "High")
         <=> (/\ SourceType(scan_case, ScanSource) \in {"it_device", "unknown"}
              /\ Cardinality(OtDestinations(scan_case, ScanSource)) >= 3))

\* What the detector does: the destinations are counted whatever their
\* type, and a source that is an OT device is never flagged.
C23_FindingIffThreeDestinations ==
    scan_case.called =>
        ((\E i \in DOMAIN scan_case.findings :
             /\ scan_case.findings[i].affected_assets[1] = ScanSource
             /\ scan_case.findings[i].severity = "High")
         <=> (/\ SourceType(scan_case, ScanSource) \in {"it_device", "unknown"}
              /\ Cardinality({ scan_case.connections[i].dst_ip : i \in
                     { j \in DOMAIN scan_case.connections :
                         scan_case.connections[j].dst_port \in OT_SERVER_PORTS } }) >= 3))

\* ------------------------------------------------------------------------
\* Properties of the signature engine
\* ------------------------------------------------------------------------
\* A filter that compiles: a port that is a port, a pattern of whole bytes.
WellFormedFilter(filter) ==
    /\ filter.field = "tcp.dst_port" => \A v \in filter.value : v \in 0..65535
    /\ filter.field = "payload" =>
          \A pat \in filter.pattern : Len(pat) > 0 /\ Len(pat) % 2 = 0

\* A fingerprint file the directory scan is to load.
ValidSignatureFile(f) ==
    /\ f.ext \in {"yaml", "yml"}
    /\ f.readable
    /\ f.parses
    /\ f.confidence \in 1..5
    /\ \A i \in DOMAIN f.filters : WellFormedFilter(f.filters[i])

\* The engine holds exactly these files' signatures, in this order, each
\* with its own compiled filters.
HoldsExactly(eng, files) ==
    /\ Len(eng.signatures) = Len(files)
    /\ DOMAIN eng.compiled_patterns = { i - 1 : i \in DOMAIN files }
    /\ \A i \in DOMAIN files :
          /\ eng.signatures[i] = [name |-> files[i].name,
                                   confidence |-> files[i].confidence,
                                   filters |-> files[i].filters]
          /\ eng.compiled_patterns[i - 1] = compile_filters(files[i].filters).compiled

\* C24: a directory scan loads every valid fingerprint whatever the order
\* of the files; an invalid file is skipped, does not abort the scan, and
\* leaves the signatures before and after it, and their compiled filters,
\* as they are.
C24_InvalidFilesSkipped ==
    (sig_log.op \in {"load_directory", "reload"} /\ engine.signature_dir # {}) =>
        /\ sig_log.kind = "Ok"
        /\ sig_log.count = Len(SelectSeq(sig_listing, ValidSignatureFile))
        /\ HoldsExactly(engine, SelectSeq(sig_listing, ValidSignatureFile))

\* The first load met a valid file, then an invalid one, then a valid one.
C24_Witness ==
    /\ sig_log.op = "load_directory"
    /\ Len(sig_listing) = 3
    /\ ValidSignatureFile(sig_listing[1])
    /\ ~ValidSignatureFile(sig_listing[2]) /\ sig_listing[2].ext = "yaml"
    /\ ValidSignatureFile(sig_listing[3])
    /\ sig_log.count = 2

C26_ReloadIsIdempotent ==
    (sig_log.op = "reload" /\ engine.signature_dir # {}) =>
        /\ sig_log.kind = "Ok"
        /\ sig_log.count = sig_log.first_count
        /\ Len(engine.signatures) = Len(sig_log.first.signatures)
        /\ \A packet \in SignaturePackets :
              match_packet(engine, packet) = match_packet(sig_log.first, packet)

\* The directory was reloaded twice and a frame matches two signatures of
\* equal confidence.
C26_Witness ==
    /\ sig_log.op = "reload"
    /\ sig_ops = 2
    /\ sig_log.first_count >= 2
    /\ \E packet \in SignaturePackets :
          LET m == match_packet(engine, packet)
          IN Len(m) >= 2 /\ m[1].confidence = m[2].confidence

\* ------------------------------------------------------------------------
\* Properties of the session store under later saves and edits
\* ------------------------------------------------------------------------
\* C27: stored sessions are isolated from one another: a save_session that
\* creates another session leaves the assets and connections that every
\* session stored before it yields on load as they were.
C27_StoredSessionsIsolated ==
    [][(last_cmd'.op = "save" /\ db' # db) =>
          \A s \in DOMAIN db.sessions :
              /\ list_assets(db', s) = list_assets(db, s)
              /\ list_connections(db', s) = list_connections(db, s)]_vars

\* C28: an edit persists only to the stored session whose data is in memory:
\* when import_pcap has replaced the assets in memory, an update_asset or
\* bulk_update_assets that follows changes no stored asset row.
C28_EditAfterImportLeavesStoredRows ==
    [][(last_cmd.op = "import" /\ last_cmd'.op = "update")
          => db'.assets = db.assets]_vars

\* ------------------------------------------------------------------------
\* Properties of repeated analysis and of the capture handle
\* ------------------------------------------------------------------------
\* C29: run_analysis is idempotent: a run that directly follows another
\* run returns the same Purdue assignments, level and method, for every
\* asset.
C29_RunAnalysisIdempotent ==
    [][(last_cmd.op = "analysis" /\ last_cmd'.op = "analysis")
          => app'.purdue_assignments = app.purdue_assignments]_vars

\* C30: is_running() is true only while the reader thread is capturing:
\* once the thread has exited, whatever the reason, it returns false.
C30_NotRunningAfterReaderExit == reader_pc = "done" => ~is_running

====
